---- MODULE Spec2Model ----
(***************************************************************************)
(* A model of the quiz application of src/src/App.tsx: the multi-select    *)
(* evaluator, the review-date scheduler, the per-question state machines   *)
(* with the history collection, and the admin ingestion parser.            *)
(*                                                                         *)
(* The module holds several specifications over one set of variables:      *)
(*   SpecEval   the pure multi-select evaluation (normalize + compare)     *)
(*   SpecDate   the pure review-date computation (Date.setDate)            *)
(*   Spec       one mounted question block, the session and the history    *)
(*   SpecParse  the pure text-to-question parser                           *)
(*   SpecAdmin  the admin form around the parser and the question store    *)
(*   SpecAnalysis  the analysis page's statistics over a history          *)
(*   SpecAuth   the auth listener of App with its admin lookups in flight  *)
(*   SpecReview the review page's two queries over a history               *)
(* A specification leaves the variables of the others at their idle value. *)
(***************************************************************************)
EXTENDS Integers, Sequences, FiniteSets, TLC

VARIABLES
    evChosen,       \* SpecEval: the `chosen` argument
    evCorrect,      \* SpecEval: the `correct` argument
    evResult,       \* SpecEval: <<>> before the evaluation, then <<ok>>, ok the result
    evSetOk,        \* SpecEval: <<>>, then <<ok>> of the Set-based evaluation
    dtNow,          \* SpecDate: the submission date [y, m, d] (local calendar)
    dtCorrect,      \* SpecDate: the verdict the offset is chosen by
    dtNext,         \* SpecDate: <<>>, then <<the computed nextReviewDate>>
    question,       \* Spec: the question document the store holds (fixed)
    user,           \* Spec: App.user, "null" or the signed-in uid
    page,           \* Spec: App.page
    module,         \* Spec: the page's module: "off", "loading", "ready", "empty", "hung"
    now,            \* Spec: the clock, in days
    sc,             \* Spec: SingleChoiceBlock state [isSubmitted, userAnswer]
    ms,             \* Spec: MultiSelectBlock state [chosen, isSubmitted, isCorrect]
    rd,             \* Spec: ReadingBlock state [submissions, focus, items]
    pending,        \* Spec: history writes issued by addDoc and not yet settled
    history,        \* Spec: the documents of users/{uid}/history, in commit order
    count,          \* Spec: accepted submissions per type, and rejected writes
    last,           \* Spec: the submit or redo handler the last step ran, else "-"
    psShape,        \* SpecParse: the parts the pasted text is made of
    psInput,        \* SpecParse: the pasted text
    psResult,       \* SpecParse: <<>>, then <<the outcome of the parse>>
    pastedContent,  \* SpecAdmin: AdminModule's textarea
    isSubmitting,   \* SpecAdmin: AdminModule's isSubmitting
    message,        \* SpecAdmin: AdminModule's message
    adPending,      \* SpecAdmin: <<>>, or <<the addDoc call awaited>>
    questions,      \* SpecAdmin: the documents of the questions collection
    adLast,         \* SpecAdmin: the handler or callback the last step ran
    parseLog,       \* SpecAdmin: the texts parsed so far, each with its outcome
    anRecords,      \* SpecAnalysis: the documents of users/{uid}/history
    anRead,         \* SpecAnalysis: the getDocs call: "pending", "resolved", "rejected"
    stats,          \* SpecAnalysis: AnalysisModule's stats, null or <<[total, correct, accuracy]>>
    anLoading,      \* SpecAnalysis: AnalysisModule's loading
    fbUser,         \* SpecAuth: the user Firebase Auth holds, "null" or a uid
    auUser,         \* SpecAuth: App's user, "null" or a uid
    isAdmin,        \* SpecAuth: App's isAdmin
    auLoading,      \* SpecAuth: App's loading
    lookups,        \* SpecAuth: the uids of the listener calls awaiting their getDoc
    latest,         \* SpecAuth: the latest auth event delivered: "none", "in", "out"
    rvHistory,      \* SpecReview: the documents of users/{uid}/history, oldest first
    rvToday,        \* SpecReview: Timestamp.now(), in days
    rvSnap,         \* SpecReview: null or <<the places in rvHistory of historySnap.docs>>
    reviewQuestions,\* SpecReview: ReinforcementModule's reviewQuestions (question ids)
    rvLoading       \* SpecReview: ReinforcementModule's loading

evalVars == <<evChosen, evCorrect, evResult, evSetOk>>
dateVars == <<dtNow, dtCorrect, dtNext>>
quizVars == <<question, user, page, module, now, sc, ms, rd, pending, history, count, last>>
parseVars == <<psShape, psInput, psResult>>
adminVars ==
    <<pastedContent, isSubmitting, message, adPending, questions, adLast, parseLog>>
analysisVars == <<anRecords, anRead, stats, anLoading>>
authVars == <<fbUser, auUser, isAdmin, auLoading, lookups, latest>>
reviewVars == <<rvHistory, rvToday, rvSnap, reviewQuestions, rvLoading>>
vars ==
    <<evalVars, dateVars, quizVars, parseVars, adminVars, analysisVars, authVars,
      reviewVars>>

(***************************************************************************)
(* Sequence helpers                                                        *)
(***************************************************************************)
Range(s) == { s[i] : i \in 1..Len(s) }

SeqsUpTo(S, n) == UNION { [1..k -> S] : k \in 0..n }

(***************************************************************************)
(* Choice letters.  A choice is a one-letter string; Array.prototype.sort  *)
(* without a comparator orders strings by UTF-16 code unit.                *)
(***************************************************************************)
Letters == <<"A", "B", "C", "D", "E">>

LetterSet == Range(Letters)

CharCode(l) ==
    CASE l = "A" -> 65 [] l = "B" -> 66 [] l = "C" -> 67 [] l = "D" -> 68
      [] l = "E" -> 69 [] l = "a" -> 97 [] l = "b" -> 98 [] OTHER -> 120

\* [...new Set(arr)]: the distinct elements in order of first occurrence
RECURSIVE SetSpread(_)
SetSpread(arr) ==
    IF arr = <<>> THEN <<>>
    ELSE LET init == SetSpread(SubSeq(arr, 1, Len(arr) - 1))
             x == arr[Len(arr)]
         IN  IF x \in Range(init) THEN init ELSE Append(init, x)

\* inserting x into an ascending array, after the elements equal to it
RECURSIVE SortedInsert(_, _)
SortedInsert(sorted, x) ==
    IF sorted = <<>> THEN <<x>>
    ELSE IF CharCode(x) < CharCode(Head(sorted)) THEN <<x>> \o sorted
    ELSE <<Head(sorted)>> \o SortedInsert(Tail(sorted), x)

\* Array.prototype.sort(): ascending by code unit, stable
RECURSIVE ArraySort(_)
ArraySort(arr) ==
    IF arr = <<>> THEN <<>>
    ELSE SortedInsert(ArraySort(SubSeq(arr, 1, Len(arr) - 1)), arr[Len(arr)])

\* the same array with its duplicates kept: a sort without the Set
NormalizeKeepingDuplicates(arr) == ArraySort(arr)

\* const normalizeChoiceArray = (arr) => [...new Set(arr)].sort()
normalizeChoiceArray(arr) == ArraySort(SetSpread(arr))

\* isMultiCorrect: equal length, then equal element by element
isMultiCorrect(chosen, correct) ==
    IF Len(chosen) # Len(correct) THEN FALSE
    ELSE \A i \in 1..Len(chosen) : chosen[i] = correct[i]

(***************************************************************************)
(* SpecEval: the multi-select evaluation on arbitrary letter sequences     *)
(***************************************************************************)
MaxChosenLen == 3
MaxCorrectLen == 2

EvalIdle == evChosen = <<>> /\ evCorrect = <<>> /\ evResult = <<>> /\ evSetOk = <<>>

InitEval ==
    /\ evChosen \in SeqsUpTo(LetterSet, MaxChosenLen)
    /\ evCorrect \in SeqsUpTo(LetterSet, MaxCorrectLen)
    /\ evResult = <<>>
    /\ evSetOk = <<>>

\* MultiSelectBlock.handleSubmit, lines 301-303: the verdict `ok`
EvaluateMulti ==
    /\ evResult = <<>>
    /\ evResult' = <<isMultiCorrect(normalizeChoiceArray(evChosen),
                                    normalizeChoiceArray(evCorrect))>>
    /\ UNCHANGED <<evChosen, evCorrect, evSetOk>>

\* a Set-based check without the comparison of the sizes
setBasedCheckWithoutSize(chosen, correct) ==
    LET correctSet == SetSpread(correct)
        chosenSet == SetSpread(chosen)
    IN  \A i \in 1..Len(correctSet) : correctSet[i] \in Range(chosenSet)

\* correctSet.size === chosenSet.size && [...correctSet].every(a => chosenSet.has(a))
setBasedCheck(chosen, correct) ==
    LET correctSet == SetSpread(correct)
        chosenSet == SetSpread(chosen)
    IN  /\ Len(correctSet) = Len(chosenSet)
        /\ \A i \in 1..Len(correctSet) : correctSet[i] \in Range(chosenSet)

\* MultiSelectBlock.handleSubmit of the second version, lines 1169-1173: `ok`
EvaluateMultiBySets ==
    /\ evSetOk = <<>>
    /\ evSetOk' = <<setBasedCheck(evChosen, evCorrect)>>
    /\ UNCHANGED <<evChosen, evCorrect, evResult>>

(***************************************************************************)
(* The review date.  new Date() is read as a local calendar date; setDate  *)
(* (getDate() + n) goes through MakeDay: the day number of the first of    *)
(* the month plus the date minus one, converted back to year, month, date. *)
(***************************************************************************)
BaseYear == 2023
MaxYearOffset == 1

Years == BaseYear..(BaseYear + MaxYearOffset)

IsLeapYear(y) == (y % 4 = 0 /\ y % 100 # 0) \/ y % 400 = 0

DaysInYear(y) == IF IsLeapYear(y) THEN 366 ELSE 365

DaysInMonth(y, m) ==
    IF m = 2 THEN (IF IsLeapYear(y) THEN 29 ELSE 28)
    ELSE IF m \in {4, 6, 9, 11} THEN 30 ELSE 31

\* day number of January 1st of year y, counted from January 1st of BaseYear
RECURSIVE DayFromYear(_)
DayFromYear(y) == IF y <= BaseYear THEN 0 ELSE DayFromYear(y - 1) + DaysInYear(y - 1)

\* day number of the first of month m of year y
RECURSIVE DayFromMonth(_, _)
DayFromMonth(y, m) ==
    IF m = 1 THEN DayFromYear(y) ELSE DayFromMonth(y, m - 1) + DaysInMonth(y, m - 1)

\* MakeDay(year, month, date): date may lie outside the month
MakeDay(y, m, date) == DayFromMonth(y, m) + date - 1

\* YearFromTime: the year a day number >= 0 falls in
RECURSIVE YearFromDay(_, _)
YearFromDay(day, y) ==
    IF day < DayFromYear(y + 1) THEN y ELSE YearFromDay(day, y + 1)

\* MonthFromTime: the month of year y a day number falls in
RECURSIVE MonthFromDay(_, _, _)
MonthFromDay(day, y, m) ==
    IF m = 12 \/ day < DayFromMonth(y, m + 1) THEN m ELSE MonthFromDay(day, y, m + 1)

\* the calendar date of a day number
DateFromDay(day) ==
    LET y == YearFromDay(day, BaseYear)
        m == MonthFromDay(day, y, 1)
    IN  [y |-> y, m |-> m, d |-> day - DayFromMonth(y, m) + 1]

\* Date.prototype.setDate(date) on the calendar date t
setDate(t, date) == DateFromDay(MakeDay(t.y, t.m, date))

CorrectOffset == 7
IncorrectOffset == 1

\* the offset of a scheduler that treats every answer as incorrect
ReviewOffsetAlwaysOne(isCorrect) == IncorrectOffset

\* (isCorrect ? 7 : 1)
ReviewOffset(isCorrect) == IF isCorrect THEN CorrectOffset ELSE IncorrectOffset

\* nextReviewDate.setDate(nextReviewDate.getDate() + (isCorrect ? 7 : 1))
computeNextReviewDate(t, isCorrect) == setDate(t, t.d + ReviewOffset(isCorrect))

CalendarDates ==
    { [y |-> y, m |-> m, d |-> d] : y \in Years, m \in 1..12, d \in 1..31 }

ValidDate(t) == t.d <= DaysInMonth(t.y, t.m)

DateIdle == dtNow = <<>> /\ dtCorrect = FALSE /\ dtNext = <<>>

InitDate ==
    /\ dtNow \in { <<t>> : t \in { u \in CalendarDates : ValidDate(u) } }
    /\ dtCorrect \in BOOLEAN
    /\ dtNext = <<>>

\* checkAnswer lines 204-205 / SubQuestion.handleSubmit lines 462-463
ComputeReview ==
    /\ dtNext = <<>>
    /\ dtNext' = <<computeNextReviewDate(dtNow[1], dtCorrect)>>
    /\ UNCHANGED <<dtNow, dtCorrect>>


(***************************************************************************)
(* Spec: one question document, rendered by QuestionRenderer as the block  *)
(* of its type on the practice page and, once a history record is due, on  *)
(* the review page.  null is <<>>, a present value v is <<v>>.             *)
(***************************************************************************)
MaxSubmits == 2
MaxDay == 1

Null == <<>>

\* String.fromCharCode(65 + i) over data.options: every block has two options
OptionLetters == {"A", "B"}

\* the reading question's sub-items: i1 is single_choice, i2 is multi_select
Items == {"i1", "i2"}

subtype(i) == IF i = "i1" THEN "single_choice" ELSE "multi_select"

\* the question documents considered; `answer` is correctAnswer / item.answer,
\* `answers` is correctAnswers / item.correctAnswers
QuestionBank ==
    { [type |-> "single_choice", answer |-> "A", answers |-> <<>>],
      [type |-> "single_choice", answer |-> "a", answers |-> <<>>],
      [type |-> "multi_select", answer |-> "", answers |-> <<"B", "A">>],
      [type |-> "multi_select", answer |-> "", answers |-> <<"A">>],
      [type |-> "reading", answer |-> "A", answers |-> <<"B", "A">>] }

\* the pages a signed-in student can reach; the admin link is rendered for admins only
Pages == {"practice", "analysis", "reinforcement"}

\* useState initial values of the three blocks
ScInit == [isSubmitted |-> FALSE, userAnswer |-> Null]

MsInit == [chosen |-> <<>>, isSubmitted |-> FALSE, isCorrect |-> Null]

\* SubQuestion's useState initial values, given its isSubmitted prop
SubInit(parentIsSubmitted) ==
    [chosen |-> <<>>, isCorrect |-> Null, localIsSubmitted |-> parentIsSubmitted]

RdInit ==
    [submissions |-> [i \in Items |-> Null],
     focus |-> "none",
     items |-> [i \in Items |-> SubInit(FALSE)]]

CountInit == [sc |-> 0, ms |-> 0, rd |-> 0, failed |-> 0]

\* the blocks exist while a module that renders QuestionRenderer is ready
Mounted(t) ==
    /\ question.type = t
    /\ module = "ready"
    /\ page \in {"practice", "reinforcement"}

Accepted == count.sc + count.ms + count.rd

QuizIdle ==
    /\ question = [type |-> "single_choice", answer |-> "A", answers |-> <<>>]
    /\ user = "null" /\ page = "practice" /\ module = "off" /\ now = 0
    /\ sc = ScInit /\ ms = MsInit /\ rd = RdInit
    /\ pending = <<>> /\ history = <<>> /\ count = CountInit /\ last = "-"

InitQuiz ==
    /\ question \in QuestionBank
    /\ user = "null" /\ page = "practice" /\ module = "off" /\ now = 0
    /\ sc = ScInit /\ ms = MsInit /\ rd = RdInit
    /\ pending = <<>> /\ history = <<>> /\ count = CountInit /\ last = "-"

FreshBlocks == sc' = ScInit /\ ms' = MsInit /\ rd' = RdInit

KeepBlocks == UNCHANGED <<sc, ms, rd>>

KeepStore == UNCHANGED <<pending, history, count>>

KeepSession == UNCHANGED <<question, user, page, module, now>>

(***************************************************************************)
(* Session: sign-in, sign-out, page switch, module fetches, the clock      *)
(***************************************************************************)
\* onAuthStateChanged with a user: the module of the current page mounts
Login ==
    /\ user = "null"
    /\ user' = "u1"
    /\ module' = "loading"
    /\ FreshBlocks /\ KeepStore
    /\ last' = "-"
    /\ UNCHANGED <<question, page, now>>

\* handleLogout: signOut, then setPage('practice'); every module unmounts
handleLogout ==
    /\ user # "null"
    /\ user' = "null" /\ page' = "practice" /\ module' = "off"
    /\ FreshBlocks /\ KeepStore
    /\ last' = "-"
    /\ UNCHANGED <<question, now>>

\* setPage(p): the old module unmounts, the new one mounts and fetches
setPage(p) ==
    /\ user # "null" /\ p # page
    /\ page' = p
    /\ module' = "loading"
    /\ FreshBlocks /\ KeepStore
    /\ last' = "-"
    /\ UNCHANGED <<question, user, now>>

\* where('nextReviewDate', '<=', today): a committed record that is due
HasDueRecord == \E k \in 1..Len(history) : history[k].nextReviewDate <= now

\* the module's getDocs resolves
FetchDone ==
    /\ module = "loading"
    /\ module' = CASE page = "practice" -> "ready"
                   [] page = "analysis" -> "ready"
                   [] OTHER -> IF HasDueRecord THEN "ready" ELSE "empty"
    /\ FreshBlocks /\ KeepStore
    /\ last' = "-"
    /\ UNCHANGED <<question, user, page, now>>

\* the module's getDocs rejects: practice and review catch it, analysis does not
FetchFail ==
    /\ module = "loading"
    /\ module' = IF page = "analysis" THEN "hung" ELSE "empty"
    /\ FreshBlocks /\ KeepStore
    /\ last' = "-"
    /\ UNCHANGED <<question, user, page, now>>

Tick ==
    /\ now < MaxDay
    /\ now' = now + 1
    /\ KeepBlocks /\ KeepStore
    /\ last' = "-"
    /\ UNCHANGED <<question, user, page, module>>

(***************************************************************************)
(* History records and the store's write pipeline                          *)
(***************************************************************************)
\* a document that is always marked correct
HistoryDocMarkedCorrect(type, subItemId, kind, str, arr, isCorrect) ==
    [type |-> type, subItemId |-> subItemId,
     chosenKind |-> kind, chosenStr |-> str, chosenArr |-> arr,
     isCorrect |-> TRUE,
     timestamp |-> Null,
     nextReviewDate |-> now + ReviewOffset(isCorrect)]

\* the document handed to addDoc, without the fields no handler reads back
\* (questionId, hintLevel, userAnswer, questionTitle).
\* `chosen` is a letter (chosenKind "string") or an array (chosenKind "array");
\* `timestamp` is the serverTimestamp() sentinel, null until the store commits;
\* `nextReviewDate` is new Date() of the client plus the offset
HistoryDoc(type, subItemId, kind, str, arr, isCorrect) ==
    [type |-> type, subItemId |-> subItemId,
     chosenKind |-> kind, chosenStr |-> str, chosenArr |-> arr,
     isCorrect |-> isCorrect,
     timestamp |-> Null,
     nextReviewDate |-> now + ReviewOffset(isCorrect)]

\* the store replaces the serverTimestamp() sentinel by its time at the commit
Committed(doc) == [doc EXCEPT !.timestamp = <<now>>]

\* the store commits the oldest pending write: the addDoc promise resolves
AddDocResolve ==
    /\ pending # <<>>
    /\ history' = Append(history, Committed(Head(pending)))
    /\ pending' = Tail(pending)
    /\ last' = "-"
    /\ KeepBlocks /\ KeepSession /\ UNCHANGED count

\* a rejection that puts the blocks back into the unanswered state
AddDocRejectRollingBack ==
    /\ pending # <<>>
    /\ pending' = Tail(pending)
    /\ count' = [count EXCEPT !.failed = @ + 1]
    /\ last' = "-"
    /\ FreshBlocks /\ KeepSession /\ UNCHANGED history

\* the store rejects the oldest pending write: the addDoc promise rejects
AddDocReject ==
    /\ pending # <<>>
    /\ pending' = Tail(pending)
    /\ count' = [count EXCEPT !.failed = @ + 1]
    /\ last' = "-"
    /\ KeepBlocks /\ KeepSession /\ UNCHANGED history

(***************************************************************************)
(* SingleChoiceBlock                                                       *)
(***************************************************************************)
\* a conversion that leaves the case as it is
toUpperCaseKeepingCase(c) == c

toUpperCase(c) == CASE c = "a" -> "A" [] c = "b" -> "B" [] OTHER -> c

\* a comparison that ignores case
evaluateSingleIgnoringCase(chosen, correct) == toUpperCase(chosen) = toUpperCase(correct)

\* userAnswer === data.correctAnswer / chosenPayload === item.answer
evaluateSingle(chosen, correct) == chosen = correct

\* the radio's onChange; the radios are disabled once submitted
setUserAnswer(l) ==
    /\ Mounted("single_choice") /\ ~sc.isSubmitted
    /\ sc' = [sc EXCEPT !.userAnswer = <<l>>]
    /\ last' = "-"
    /\ UNCHANGED <<ms, rd>> /\ KeepStore /\ KeepSession

\* checkAnswer without its history write
checkAnswerWithoutWrite ==
    /\ Mounted("single_choice") /\ ~sc.isSubmitted
    /\ sc.userAnswer # Null => Accepted < MaxSubmits
    /\ last' = "checkAnswer"
    /\ IF sc.userAnswer = Null
       THEN UNCHANGED <<sc, pending, count>>
       ELSE /\ sc' = [sc EXCEPT !.isSubmitted = TRUE]
            /\ count' = [count EXCEPT !.sc = @ + 1]
            /\ UNCHANGED pending
    /\ UNCHANGED <<ms, rd, history>> /\ KeepSession

\* a checkAnswer that skips the write when the same attempt is already recorded
checkAnswerDeduplicating ==
    /\ Mounted("single_choice") /\ ~sc.isSubmitted
    /\ sc.userAnswer # Null => Accepted < MaxSubmits
    /\ last' = "checkAnswer"
    /\ IF sc.userAnswer = Null
       THEN UNCHANGED <<sc, pending, count>>
       ELSE LET isCorrect == evaluateSingle(sc.userAnswer[1], question.answer)
                doc == HistoryDoc("single_choice", "-", "string",
                                  sc.userAnswer[1], <<>>, isCorrect)
            IN  /\ sc' = [sc EXCEPT !.isSubmitted = TRUE]
                /\ pending' = IF \E k \in 1..Len(pending) : pending[k] = doc
                              THEN pending ELSE Append(pending, doc)
                /\ count' = [count EXCEPT !.sc = @ + 1]
    /\ UNCHANGED <<ms, rd, history>> /\ KeepSession

\* checkAnswer, offered while !isSubmitted
checkAnswer ==
    /\ Mounted("single_choice") /\ ~sc.isSubmitted
    /\ sc.userAnswer # Null => Accepted < MaxSubmits
    /\ last' = "checkAnswer"
    /\ IF sc.userAnswer = Null
       THEN UNCHANGED <<sc, pending, count>>
       ELSE LET isCorrect == evaluateSingle(sc.userAnswer[1], question.answer)
            IN  /\ sc' = [sc EXCEPT !.isSubmitted = TRUE]
                /\ pending' = Append(pending,
                       HistoryDoc("single_choice", "-", "string",
                                  sc.userAnswer[1], <<>>, isCorrect))
                /\ count' = [count EXCEPT !.sc = @ + 1]
    /\ UNCHANGED <<ms, rd, history>> /\ KeepSession

\* a redo that also takes the last attempt out of the history
resetQuestionDeletingRecord ==
    /\ Mounted("single_choice") /\ sc.isSubmitted
    /\ sc' = [isSubmitted |-> FALSE, userAnswer |-> Null]
    /\ history' = IF history = <<>> THEN history
                  ELSE SubSeq(history, 1, Len(history) - 1)
    /\ last' = "resetQuestion"
    /\ UNCHANGED <<ms, rd, pending, count>> /\ KeepSession

\* a redo that leaves the selection in place
resetQuestionKeepingAnswer ==
    /\ Mounted("single_choice") /\ sc.isSubmitted
    /\ sc' = [sc EXCEPT !.isSubmitted = FALSE]
    /\ last' = "resetQuestion"
    /\ UNCHANGED <<ms, rd>> /\ KeepStore /\ KeepSession

\* a redo offered only after a wrong answer
resetQuestionOnlyWhenWrong ==
    /\ Mounted("single_choice") /\ sc.isSubmitted
    /\ sc.userAnswer # <<question.answer>>
    /\ sc' = [isSubmitted |-> FALSE, userAnswer |-> Null]
    /\ last' = "resetQuestion"
    /\ UNCHANGED <<ms, rd>> /\ KeepStore /\ KeepSession

\* resetQuestion, offered while isSubmitted
resetQuestion ==
    /\ Mounted("single_choice") /\ sc.isSubmitted
    /\ sc' = [isSubmitted |-> FALSE, userAnswer |-> Null]
    /\ last' = "resetQuestion"
    /\ UNCHANGED <<ms, rd>> /\ KeepStore /\ KeepSession

(***************************************************************************)
(* MultiSelectBlock                                                        *)
(***************************************************************************)
\* prev.filter(x => x !== letter)
Without(arr, l) == SelectSeq(arr, LAMBDA x : x # l)

\* a toggle that never removes a letter
toggledKeepingPresent(prev, l) == IF l \in Range(prev) THEN prev ELSE Append(prev, l)

\* prev.includes(letter) ? prev.filter(...) : [...prev, letter]
toggled(prev, l) == IF l \in Range(prev) THEN Without(prev, l) ELSE Append(prev, l)

\* the checkbox's onChange; the checkboxes are never disabled
toggle(l) ==
    /\ Mounted("multi_select")
    /\ ms' = [ms EXCEPT !.chosen = toggled(ms.chosen, l)]
    /\ last' = "-"
    /\ UNCHANGED <<sc, rd>> /\ KeepStore /\ KeepSession

\* MultiSelectBlock.handleSubmit, offered while !isSubmitted; its history
\* write is commented out in the source
multiHandleSubmit ==
    /\ Mounted("multi_select") /\ ~ms.isSubmitted
    /\ Accepted < MaxSubmits
    /\ LET userLetters == normalizeChoiceArray(ms.chosen)
           correctLetters == normalizeChoiceArray(question.answers)
           ok == isMultiCorrect(userLetters, correctLetters)
       IN  ms' = [ms EXCEPT !.isCorrect = <<ok>>, !.isSubmitted = TRUE]
    /\ count' = [count EXCEPT !.ms = @ + 1]
    /\ last' = "multiHandleSubmit"
    /\ UNCHANGED <<sc, rd, pending, history>> /\ KeepSession

\* the redo button's onClick, offered while isSubmitted
multiRedo ==
    /\ Mounted("multi_select") /\ ms.isSubmitted
    /\ ms' = [chosen |-> <<>>, isSubmitted |-> FALSE, isCorrect |-> Null]
    /\ last' = "multiRedo"
    /\ UNCHANGED <<sc, rd>> /\ KeepStore /\ KeepSession

(***************************************************************************)
(* ReadingBlock.  SubQuestion is a component defined inside ReadingBlock's *)
(* body, so every render of ReadingBlock gives it a new identity and React *)
(* remounts every sub-item: its state starts again from SubInit.           *)
(***************************************************************************)
\* the sub-items after a render of ReadingBlock with these submissions
Remounted(submissions) == [i \in Items |-> SubInit(submissions[i] # Null)]

\* onFocus of a sub-item: setHighlightedRefs(item.evidenceRefs); focusing the
\* item whose refs are already highlighted sets the same array and renders nothing
handleSubItemFocus(i) ==
    /\ Mounted("reading") /\ rd.focus # i
    /\ rd' = [rd EXCEPT !.focus = i, !.items = Remounted(rd.submissions)]
    /\ last' = "-"
    /\ UNCHANGED <<sc, ms>> /\ KeepStore /\ KeepSession

\* mouseover on a passage term: setTooltip renders ReadingBlock again
handleMouseOver ==
    /\ Mounted("reading")
    /\ rd' = [rd EXCEPT !.items = Remounted(rd.submissions)]
    /\ last' = "-"
    /\ UNCHANGED <<sc, ms>> /\ KeepStore /\ KeepSession

\* s = new Set(prev); s.has(letter) ? s.delete(letter) : s.add(letter); Array.from(s)
toggledInSet(prev, l) ==
    LET s == SetSpread(prev)
    IN  IF l \in Range(s) THEN Without(s, l) ELSE Append(s, l)

\* the input's onChange in the focused sub-item; disabled once submitted
handleSelection(i, l) ==
    /\ Mounted("reading") /\ rd.focus = i
    /\ ~rd.items[i].localIsSubmitted
    /\ rd' = [rd EXCEPT !.items[i].chosen =
                 IF subtype(i) = "single_choice" THEN <<l>> ELSE toggledInSet(@, l)]
    /\ last' = "-"
    /\ UNCHANGED <<sc, ms>> /\ KeepStore /\ KeepSession

\* SubQuestion.handleSubmit, offered while !localIsSubmitted
subHandleSubmit(i) ==
    /\ Mounted("reading") /\ rd.focus = i
    /\ ~rd.items[i].localIsSubmitted
    /\ rd.items[i].chosen # <<>> => Accepted < MaxSubmits
    /\ last' = "subHandleSubmit"
    /\ IF rd.items[i].chosen = <<>>
       THEN UNCHANGED <<rd, pending, count>>
       ELSE LET chosen == rd.items[i].chosen
                multi == subtype(i) = "multi_select"
                u == normalizeChoiceArray(chosen)
                c == normalizeChoiceArray(question.answers)
                correct == IF multi THEN isMultiCorrect(u, c)
                           ELSE evaluateSingle(chosen[1], question.answer)
                submissions == [rd.submissions EXCEPT ![i] = <<correct>>]
            IN  /\ rd' = [rd EXCEPT !.submissions = submissions,
                                    !.items = Remounted(submissions)]
                /\ pending' = Append(pending,
                       IF multi
                       THEN HistoryDoc("reading", i, "array", "", u, correct)
                       ELSE HistoryDoc("reading", i, "string", chosen[1], <<>>, correct))
                /\ count' = [count EXCEPT !.rd = @ + 1]
    /\ UNCHANGED <<sc, ms, history>> /\ KeepSession

(***************************************************************************)
(* Text.  A string is a sequence of atoms: one atom per character, except  *)
(* that each of the three marker words and each markup tag is one atom.    *)
(*   CHECK, BOOK, GLASS   the glyphs U+2705, U+1F4D6, U+1F50D              *)
(*   ANSWER, EXPLAIN, ERRORS   the words of the three marker literals,     *)
(*                        each followed in its literal by FCOLON           *)
(*   FCOLON, ":"          the full-width and the ASCII colon               *)
(*   FLP, FRP, IDSP       full-width parentheses, ideographic space        *)
(*   NL, " "              line feed, space                                 *)
(*   TAG                  a markup tag such as <b>                         *)
(*   "T1", "T2", "T3"     CJK text characters                              *)
(***************************************************************************)
CHECK == "[check]"
BOOK == "[book]"
GLASS == "[glass]"
ANSWER == "[answer]"
EXPLAIN == "[explain]"
ERRORS == "[errors]"
FCOLON == "[fcolon]"
FLP == "[flp]"
FRP == "[frp]"
IDSP == "[idsp]"
NL == "[nl]"
TAG == "[tag]"

AnswerLiteral == <<ANSWER, FCOLON>>
ExplanationLiteral == <<EXPLAIN, FCOLON>>
ErrorLiteral == <<ERRORS, FCOLON>>

\* \s and String.prototype.trim: U+3000 is white space
IsSpace(a) == a \in {" ", NL, IDSP}

\* [A-Z]
IsUpper(a) == a \in {"A", "B", "C", "D", "E", "F"}

\* [A-Z] under the i flag
IsLetter(a) == IsUpper(a) \/ a \in {"a", "b"}

\* [0-9]
IsDigit(a) == a \in {"1", "2"}

\* tempDiv.innerHTML = html; tempDiv.textContent: the text without its tags
RECURSIVE textContent(_)
textContent(html) ==
    IF html = <<>> THEN <<>>
    ELSE IF Head(html) = TAG THEN textContent(Tail(html))
    ELSE <<Head(html)>> \o textContent(Tail(html))

\* whether `sub` occurs in s at index i
OccursAt(s, sub, i) ==
    /\ i >= 1 /\ i + Len(sub) - 1 <= Len(s)
    /\ \A k \in 1..Len(sub) : s[i + k - 1] = sub[k]

\* String.prototype.includes
includes(s, sub) == \E i \in 1..(Len(s) + 1) : OccursAt(s, sub, i)

\* the least element of a non-empty set of numbers
Least(S) == CHOOSE x \in S : \A y \in S : x <= y

\* String.prototype.indexOf, counted from 1; 0 when there is none
indexOf(s, sub) ==
    LET hits == { i \in 1..(Len(s) + 1) : OccursAt(s, sub, i) }
    IN  IF hits = {} THEN 0 ELSE Least(hits)

\* s.replace(sub, ''): the first occurrence removed
removeFirst(s, sub) ==
    LET i == indexOf(s, sub)
    IN  IF i = 0 THEN s
        ELSE SubSeq(s, 1, i - 1) \o SubSeq(s, i + Len(sub), Len(s))

\* s.split(sep) for a one-atom separator set: the pieces between every occurrence
RECURSIVE splitOn(_, _)
splitOn(s, seps) ==
    LET hits == { i \in 1..Len(s) : s[i] \in seps }
    IN  IF hits = {} THEN <<s>>
        ELSE LET i == Least(hits)
             IN  <<SubSeq(s, 1, i - 1)>> \o splitOn(SubSeq(s, i + 1, Len(s)), seps)

\* the index of the first atom at or after i that is not white space
RECURSIVE skipSpace(_, _)
skipSpace(s, i) ==
    IF i <= Len(s) /\ IsSpace(s[i]) THEN skipSpace(s, i + 1) ELSE i

RECURSIVE trimStart(_)
trimStart(s) == IF s # <<>> /\ IsSpace(Head(s)) THEN trimStart(Tail(s)) ELSE s

RECURSIVE trimEnd(_)
trimEnd(s) ==
    IF s # <<>> /\ IsSpace(s[Len(s)]) THEN trimEnd(SubSeq(s, 1, Len(s) - 1)) ELSE s

\* String.prototype.trim
trim(s) == trimEnd(trimStart(s))

\* /✅\s*正確答案：\s*([A-Z])/i matched at index i: <<the captured letter>>, or <<>>
answerMatchAt(s, i) ==
    IF i > Len(s) \/ s[i] # CHECK THEN <<>>
    ELSE LET j == skipSpace(s, i + 1)
         IN  IF ~OccursAt(s, AnswerLiteral, j) THEN <<>>
             ELSE LET k == skipSpace(s, j + 2)
                  IN  IF k <= Len(s) /\ IsLetter(s[k]) THEN <<s[k]>> ELSE <<>>

\* plainText.match(...): the capture of the leftmost match, or <<>> for null
answerMatch(s) ==
    LET hits == { i \in 1..Len(s) : answerMatchAt(s, i) # <<>> }
    IN  IF hits = {} THEN <<>> ELSE answerMatchAt(s, Least(hits))

\* a marker that allows no white space inside its parentheses
optionMarkerEndWithoutSpaces(s, i) ==
    IF i + 2 <= Len(s) /\ s[i] = "(" /\ IsUpper(s[i + 1]) /\ s[i + 2] = ")"
    THEN i + 2
    ELSE 0

\* /\(\s*[A-Z]\s*\)/ matched at index i: the index of its closing parenthesis, or 0
optionMarkerEnd(s, i) ==
    IF i > Len(s) \/ s[i] # "(" THEN 0
    ELSE LET j == skipSpace(s, i + 1)
         IN  IF j > Len(s) \/ ~IsUpper(s[j]) THEN 0
             ELSE LET k == skipSpace(s, j + 1)
                  IN  IF k <= Len(s) /\ s[k] = ")" THEN k ELSE 0

\* s.search(/\(\s*[A-Z]\s*\)/), counted from 1; 0 for -1
searchOptionMarker(s) ==
    LET hits == { i \in 1..Len(s) : optionMarkerEnd(s, i) > 0 }
    IN  IF hits = {} THEN 0 ELSE Least(hits)

\* s.split(/\(\s*[A-Z]\s*\)/)
RECURSIVE splitOnOptionMarkers(_)
splitOnOptionMarkers(s) ==
    LET i == searchOptionMarker(s)
    IN  IF i = 0 THEN <<s>>
        ELSE <<SubSeq(s, 1, i - 1)>>
             \o splitOnOptionMarkers(SubSeq(s, optionMarkerEnd(s, i) + 1, Len(s)))

\* the number of digits s starts with
RECURSIVE leadingDigits(_)
leadingDigits(s) ==
    IF s # <<>> /\ IsDigit(Head(s)) THEN 1 + leadingDigits(Tail(s)) ELSE 0

\* a title that keeps its numbering prefix
stripNumberingKeepingPrefix(s) == s

\* s.replace(/^[0-9]+\.\s*（\s*　\s*）/, ''): between the full-width parentheses
\* only white space, with an ideographic space in it
stripNumbering(s) ==
    LET n == leadingDigits(s)
        open == skipSpace(s, n + 2)
        close == skipSpace(s, open + 1)
    IN  IF /\ n >= 1
           /\ n + 1 <= Len(s) /\ s[n + 1] = "."
           /\ open <= Len(s) /\ s[open] = FLP
           /\ close <= Len(s) /\ s[close] = FRP
           /\ \E k \in (open + 1)..(close - 1) : s[k] = IDSP
        THEN SubSeq(s, close + 1, Len(s))
        ELSE s

\* options that keep their surrounding white space
mapWithoutTrim(parts) == parts

\* Array.prototype.map(s => s.trim())
mapTrim(parts) == [k \in 1..Len(parts) |-> trim(parts[k])]

\* a key that keeps its case
upperCasedKeepingCase(s) == s

\* the key of an error-analysis line: parts[0]?.trim().toUpperCase()
upperCased(s) == [k \in 1..Len(s) |-> toUpperCase(s[k])]

ErrorKeys == {<<"A">>, <<"B">>, <<"C">>, <<"D">>, <<"E">>}

\* the forEach over the lines: a line with exactly one colon and a key among
\* A-E sets errorAnalysisObj[k]; a later line for the same key overwrites it
RECURSIVE errorAnalysisOf(_)
errorAnalysisOf(lines) ==
    IF lines = <<>> THEN <<>>
    ELSE LET before == errorAnalysisOf(SubSeq(lines, 1, Len(lines) - 1))
             parts == splitOn(lines[Len(lines)], {":", FCOLON})
             k == upperCased(trim(parts[1]))
         IN  IF Len(parts) = 2 /\ k \in ErrorKeys
             THEN [x \in DOMAIN before \cup {k[1]} |->
                      IF x = k[1] THEN trim(parts[2]) ELSE before[x]]
             ELSE before

(***************************************************************************)
(* AdminModule.handleSubmit, lines 700-744: the parse of the pasted text.  *)
(* The outcome is [error |-> "" ...] with the fields of the question, or   *)
(* [error |-> kind ...] for the Error thrown.                              *)
(***************************************************************************)
ParseFailure(kind) ==
    [error |-> kind, title |-> <<>>, options |-> <<>>, correctAnswer |-> "",
     explanation |-> <<>>, errorAnalysis |-> <<>>]

\* a split at the first glyph only: what precedes it and all that follows it
errorPartsAtFirstGlyph(html) ==
    LET i == indexOf(html, <<GLASS>>)
    IN  IF i = 0 THEN <<html>>
        ELSE <<SubSeq(html, 1, i - 1), SubSeq(html, i + 1, Len(html))>>

\* html.split(/🔍/i)
errorPartsOf(html) == splitOn(html, {GLASS})

\* mainBlockHtml.split(/📖/i)
explanationPartsOf(html) == splitOn(errorPartsOf(html)[1], {BOOK})

\* contentBeforeExplanationHtml.split(/✅/i)[0].trim()
contentBeforeAnswerHtmlOf(html) ==
    trim(splitOn(explanationPartsOf(html)[1], {CHECK})[1])

\* the fields extracted once the four checks have passed
ExtractedFields(html) ==
    LET errorParts == errorPartsOf(html)
        errorAnalysisHtml == IF Len(errorParts) > 1 THEN errorParts[2] ELSE <<>>
        explanationParts == explanationPartsOf(html)
        explanation ==
            IF Len(explanationParts) > 1
            THEN trim(removeFirst(explanationParts[2], ExplanationLiteral))
            ELSE <<>>
        answer == answerMatch(textContent(html))
        contentBeforeAnswerHtml == contentBeforeAnswerHtmlOf(html)
        firstOptionIdx == searchOptionMarker(contentBeforeAnswerHtml)
        title == trim(stripNumbering(SubSeq(contentBeforeAnswerHtml, 1, firstOptionIdx - 1)))
        optionsBlockHtml ==
            SubSeq(contentBeforeAnswerHtml, firstOptionIdx, Len(contentBeforeAnswerHtml))
        options == mapTrim(Tail(splitOnOptionMarkers(optionsBlockHtml)))
        errorAnalysisObj ==
            IF errorAnalysisHtml # <<>>
            THEN errorAnalysisOf(
                     splitOn(trim(removeFirst(errorAnalysisHtml, ErrorLiteral)), {NL}))
            ELSE <<>>
    IN  [error |-> "", title |-> title, options |-> options,
         correctAnswer |-> toUpperCase(answer[1]),
         explanation |-> explanation, errorAnalysis |-> errorAnalysisObj]

\* the parse with its two marker checks in the other order
ParseQuestionExplanationFirst(html) ==
    LET plainText == textContent(html)
    IN  IF ~includes(plainText, ExplanationLiteral)
        THEN ParseFailure("MissingExplanationMarker")
        ELSE IF ~includes(plainText, AnswerLiteral)
        THEN ParseFailure("MissingAnswerMarker")
        ELSE IF answerMatch(plainText) = <<>>
        THEN ParseFailure("UnparsableAnswer")
        ELSE IF searchOptionMarker(contentBeforeAnswerHtmlOf(html)) = 0
        THEN ParseFailure("NoOptionMarkersFound")
        ELSE ExtractedFields(html)

\* the try block up to the addDoc call: the throws in the order of the source
ParseQuestion(html) ==
    LET plainText == textContent(html)
    IN  IF ~includes(plainText, AnswerLiteral)
        THEN ParseFailure("MissingAnswerMarker")
        ELSE IF ~includes(plainText, ExplanationLiteral)
        THEN ParseFailure("MissingExplanationMarker")
        ELSE IF answerMatch(plainText) = <<>>
        THEN ParseFailure("UnparsableAnswer")
        ELSE IF searchOptionMarker(contentBeforeAnswerHtmlOf(html)) = 0
        THEN ParseFailure("NoOptionMarkersFound")
        ELSE ExtractedFields(html)

(***************************************************************************)
(* SpecParse: the parse of pasted texts put together from one alternative  *)
(* for each part of the authoring template, in one of three orders.        *)
(***************************************************************************)
StemTexts ==
    [none |-> <<>>,
     plain |-> <<"T1", " ">>,
     numbered |-> <<"1", ".", " ", FLP, IDSP, IDSP, FRP, "T1", NL>>]

OptionTexts ==
    [none |-> <<>>,
     one |-> <<"(", "A", ")", " ", "T2", NL>>,
     two |-> <<"(", "A", ")", "T2", " ", "(", " ", "B", " ", ")", " ", "T3", NL>>,
     lowercase |-> <<"(", "a", ")", "T2", NL>>,
     tagged |-> <<TAG, "(", "C", ")", TAG, "T2", " ", "(", "A", ")", "T3", NL>>]

AnswerTexts ==
    [none |-> <<>>,
     upper |-> <<CHECK, " ", ANSWER, FCOLON, "B", NL>>,
     lower |-> <<CHECK, ANSWER, FCOLON, " ", "b", NL>>,
     beyond |-> <<CHECK, " ", ANSWER, FCOLON, "E", NL>>,
     noGlyph |-> <<ANSWER, FCOLON, "B", NL>>,
     digit |-> <<CHECK, " ", ANSWER, FCOLON, "1", NL>>,
     tagged |-> <<CHECK, ANSWER, TAG, FCOLON, "A", NL>>,
     twice |-> <<CHECK, ANSWER, FCOLON, "1", NL, CHECK, " ", ANSWER, FCOLON, "b", NL,
                 CHECK, ANSWER, FCOLON, "A", NL>>]

ExplanationTexts ==
    [none |-> <<>>,
     full |-> <<BOOK, " ", EXPLAIN, FCOLON, "T3", NL>>,
     noGlyph |-> <<EXPLAIN, FCOLON, "T3", NL>>,
     empty |-> <<BOOK, EXPLAIN, FCOLON, NL>>,
     withMarker |-> <<BOOK, " ", EXPLAIN, FCOLON, "(", "D", ")", "T1", NL>>]

ErrorTexts ==
    [none |-> <<>>,
     mixed |-> <<GLASS, " ", ERRORS, FCOLON, NL,
                 "A", FCOLON, "T1", NL, "T2", " ", "T3", NL>>,
     ascii |-> <<GLASS, ERRORS, FCOLON, NL,
                 "b", ":", " ", "T2", NL, "F", FCOLON, "T1", NL, "A", FCOLON>>,
     twice |-> <<GLASS, " ", ERRORS, FCOLON, NL,
                 "A", FCOLON, "T1", NL, GLASS, NL, "B", FCOLON, "T2", NL>>,
     colonInValue |-> <<GLASS, " ", ERRORS, FCOLON, NL,
                        "A", FCOLON, "T1", ":", "T2", NL, "B", FCOLON, "T3", NL>>]

Orders == {"template", "explanationFirst", "errorsFirst"}

Shapes ==
    [stem : DOMAIN StemTexts, options : DOMAIN OptionTexts, answer : DOMAIN AnswerTexts,
     explanation : DOMAIN ExplanationTexts, errors : DOMAIN ErrorTexts, order : Orders]

\* the pasted text of a shape
TextOf(sh) ==
    LET st == StemTexts[sh.stem]
        op == OptionTexts[sh.options]
        an == AnswerTexts[sh.answer]
        ex == ExplanationTexts[sh.explanation]
        er == ErrorTexts[sh.errors]
    IN  CASE sh.order = "template" -> st \o op \o an \o ex \o er
          [] sh.order = "explanationFirst" -> st \o op \o ex \o an \o er
          [] OTHER -> er \o <<NL>> \o st \o op \o an \o ex

NoShape ==
    [stem |-> "none", options |-> "none", answer |-> "none",
     explanation |-> "none", errors |-> "none", order |-> "template"]

ParseIdle == psShape = NoShape /\ psInput = <<>> /\ psResult = <<>>

InitParse ==
    /\ psShape \in Shapes
    /\ psInput = TextOf(psShape)
    /\ psResult = <<>>

\* the parse of the pasted text
Parse ==
    /\ psResult = <<>>
    /\ psResult' = <<ParseQuestion(psInput)>>
    /\ UNCHANGED <<psShape, psInput>>

(***************************************************************************)
(* SpecAdmin: AdminModule, lines 689-787.  The administrator types into   *)
(* the textarea and submits the form; a text that parses starts an addDoc  *)
(* on the questions collection, which resolves or rejects later.           *)
(***************************************************************************)
MaxQuestions == 2
MaxParses == 3

FailureKinds ==
    {"MissingAnswerMarker", "MissingExplanationMarker", "UnparsableAnswer",
     "NoOptionMarkersFound"}

\* one message for every failure
FailureMessageGeneric == [k \in FailureKinds |-> "add failed"]

\* setMessage(`新增失敗: ${err.message}`) for the Error of each throw
FailureMessage ==
    [MissingAnswerMarker |-> "add failed: answer marker not found",
     MissingExplanationMarker |-> "add failed: explanation marker not found",
     UnparsableAnswer |-> "add failed: answer cannot be parsed",
     NoOptionMarkersFound |-> "add failed: no option marker in the question"]

AdminShapes ==
    {[stem |-> "numbered", options |-> "two", answer |-> "upper",
      explanation |-> "full", errors |-> "mixed", order |-> "template"],
     [stem |-> "plain", options |-> "one", answer |-> "lower",
      explanation |-> "empty", errors |-> "none", order |-> "explanationFirst"],
     [stem |-> "plain", options |-> "two", answer |-> "none",
      explanation |-> "full", errors |-> "none", order |-> "template"],
     [stem |-> "plain", options |-> "two", answer |-> "upper",
      explanation |-> "none", errors |-> "none", order |-> "template"],
     [stem |-> "plain", options |-> "two", answer |-> "digit",
      explanation |-> "full", errors |-> "none", order |-> "template"],
     [stem |-> "plain", options |-> "none", answer |-> "upper",
      explanation |-> "full", errors |-> "mixed", order |-> "template"]}

AdminInputs == {<<>>} \cup {TextOf(sh) : sh \in AdminShapes}

AdminIdle ==
    /\ pastedContent = <<>>
    /\ isSubmitting = FALSE
    /\ message = ""
    /\ adPending = <<>>
    /\ questions = <<>>
    /\ adLast = "-"
    /\ parseLog = <<>>

\* the useState initial values of AdminModule and an empty collection
InitAdmin == AdminIdle

\* the textarea's onChange
setPastedContent(text) ==
    /\ pastedContent' = text
    /\ adLast' = "setPastedContent"
    /\ UNCHANGED <<isSubmitting, message, adPending, questions, parseLog>>

\* the document handed to addDoc
QuestionDoc(parsed) ==
    [type |-> "single_choice", title |-> parsed.title, options |-> parsed.options,
     correctAnswer |-> parsed.correctAnswer, explanation |-> parsed.explanation,
     errorAnalysis |-> parsed.errorAnalysis]

\* a handler whose catch block also clears the textarea
adminHandleSubmitClearingOnFailure ==
    /\ ~isSubmitting
    /\ Len(questions) + Len(adPending) < MaxQuestions
    /\ Len(parseLog) < MaxParses
    /\ adLast' = "handleSubmit"
    /\ LET parsed == ParseQuestion(pastedContent)
       IN  /\ parseLog' = Append(parseLog, [text |-> pastedContent, outcome |-> parsed])
           /\ IF parsed.error # ""
              THEN /\ message' = FailureMessage[parsed.error]
                   /\ isSubmitting' = FALSE
                   /\ pastedContent' = <<>>
                   /\ UNCHANGED <<adPending, questions>>
              ELSE /\ message' = ""
                   /\ isSubmitting' = TRUE
                   /\ adPending' = <<[text |-> pastedContent, doc |-> QuestionDoc(parsed)]>>
                   /\ UNCHANGED <<pastedContent, questions>>

\* a handler whose parse reads what the previous submit left behind: after a
\* success the answer pattern no longer matches
adminHandleSubmitWithCarriedState ==
    /\ ~isSubmitting
    /\ Len(questions) + Len(adPending) < MaxQuestions
    /\ Len(parseLog) < MaxParses
    /\ adLast' = "handleSubmit"
    /\ LET parsed == IF message = "success" /\ ParseQuestion(pastedContent).error = ""
                     THEN ParseFailure("UnparsableAnswer")
                     ELSE ParseQuestion(pastedContent)
       IN  /\ parseLog' = Append(parseLog, [text |-> pastedContent, outcome |-> parsed])
           /\ IF parsed.error # ""
              THEN /\ message' = FailureMessage[parsed.error]
                   /\ isSubmitting' = FALSE
                   /\ UNCHANGED <<pastedContent, adPending, questions>>
              ELSE /\ message' = ""
                   /\ isSubmitting' = TRUE
                   /\ adPending' = <<[text |-> pastedContent, doc |-> QuestionDoc(parsed)]>>
                   /\ UNCHANGED <<pastedContent, questions>>

\* the form's onSubmit, up to the await or through catch and finally; the
\* submit button is disabled while isSubmitting
adminHandleSubmit ==
    /\ ~isSubmitting
    /\ Len(questions) + Len(adPending) < MaxQuestions
    /\ Len(parseLog) < MaxParses
    /\ adLast' = "handleSubmit"
    /\ LET parsed == ParseQuestion(pastedContent)
       IN  /\ parseLog' = Append(parseLog, [text |-> pastedContent, outcome |-> parsed])
           /\ IF parsed.error # ""
              THEN /\ message' = FailureMessage[parsed.error]
                   /\ isSubmitting' = FALSE
                   /\ UNCHANGED <<pastedContent, adPending, questions>>
              ELSE /\ message' = ""
                   /\ isSubmitting' = TRUE
                   /\ adPending' = <<[text |-> pastedContent, doc |-> QuestionDoc(parsed)]>>
                   /\ UNCHANGED <<pastedContent, questions>>

\* the awaited addDoc resolves: the rest of the try block, then finally
AdminAddDocResolve ==
    /\ adPending # <<>>
    /\ questions' = Append(questions, adPending[1].doc)
    /\ adPending' = <<>>
    /\ message' = "success"
    /\ pastedContent' = <<>>
    /\ isSubmitting' = FALSE
    /\ adLast' = "addDocResolve"
    /\ UNCHANGED parseLog

\* the awaited addDoc rejects: catch, then finally
AdminAddDocReject ==
    /\ adPending # <<>>
    /\ adPending' = <<>>
    /\ message' = "add failed: write rejected"
    /\ isSubmitting' = FALSE
    /\ adLast' = "addDocReject"
    /\ UNCHANGED <<pastedContent, questions, parseLog>>

(***************************************************************************)
(* SpecAnalysis: AnalysisModule.fetchData over a history of any verdicts   *)
(***************************************************************************)
MaxRecords == 5

\* the text '0'; a toFixed(1) text has one digit after the point
ZeroText == [whole |-> 0, frac |-> <<>>]

\* ((num / den) * 100).toFixed(1): the percentage rounded to tenths, half up
toFixed1(num, den) ==
    LET tenths == (2000 * num + den) \div (2 * den)
    IN  [whole |-> tenths \div 10, frac |-> <<tenths % 10>>]

\* a loop that counts every document as correct
RECURSIVE tallyCountingAll(_)
tallyCountingAll(docs) ==
    IF docs = <<>> THEN [total |-> 0, correct |-> 0]
    ELSE LET t == tallyCountingAll(SubSeq(docs, 1, Len(docs) - 1))
         IN  [total |-> t.total + 1, correct |-> t.correct + 1]

\* snap.forEach((d) => { total++; if (d.data().isCorrect) correct++; })
RECURSIVE tally(_)
tally(docs) ==
    IF docs = <<>> THEN [total |-> 0, correct |-> 0]
    ELSE LET t == tally(SubSeq(docs, 1, Len(docs) - 1))
         IN  [total |-> t.total + 1,
              correct |-> IF docs[Len(docs)].isCorrect THEN t.correct + 1 ELSE t.correct]

\* the object handed to setStats
statsOf(docs) ==
    LET t == tally(docs)
    IN  [total |-> t.total, correct |-> t.correct,
         accuracy |-> IF t.total > 0 THEN toFixed1(t.correct, t.total) ELSE ZeroText]

AnalysisIdle == anRecords = <<>> /\ anRead = "pending" /\ stats = <<>> /\ anLoading = TRUE

\* the module is mounted (loading = true, stats = null) and its read is in flight
InitAnalysis ==
    /\ anRecords \in SeqsUpTo({[isCorrect |-> TRUE], [isCorrect |-> FALSE]}, MaxRecords)
    /\ anRead = "pending" /\ stats = <<>> /\ anLoading = TRUE

\* getDocs(historyRef) resolves: the rest of fetchData runs
fetchDataResolved ==
    /\ anRead = "pending"
    /\ anRead' = "resolved"
    /\ stats' = <<statsOf(anRecords)>>
    /\ anLoading' = FALSE
    /\ UNCHANGED anRecords

\* getDocs(historyRef) rejects: fetchData ends at its await, nothing is set
fetchDataRejected ==
    /\ anRead = "pending"
    /\ anRead' = "rejected"
    /\ UNCHANGED <<anRecords, stats, anLoading>>

(***************************************************************************)
(* SpecAuth: the onAuthStateChanged listener of App.  A sign-in event      *)
(* starts a listener call that awaits getDoc(admins/{uid}) before it sets  *)
(* isAdmin and user; a sign-out event sets its state at once.  The calls   *)
(* awaiting their lookup settle in any order.                              *)
(***************************************************************************)
MaxLookups == 3

Uids == {"u1", "u2"}

\* the uids with a document in the admins collection
AdminDocs == {"u1"}

\* useState initial values: user null, loading true, isAdmin false; no event yet
AuthIdle ==
    /\ fbUser = "null" /\ auUser = "null" /\ isAdmin = FALSE /\ auLoading = TRUE
    /\ lookups = <<>> /\ latest = "none"

\* the listener is called with a user: it starts the admin lookup and awaits it
AuthSignedIn(u) ==
    /\ fbUser # u
    /\ Len(lookups) < MaxLookups
    /\ fbUser' = u
    /\ lookups' = Append(lookups, u)
    /\ latest' = "in"
    /\ UNCHANGED <<auUser, isAdmin, auLoading>>

\* the listener is called with null: the first event without a session, or a sign-out
AuthSignedOut ==
    /\ fbUser # "null" \/ latest = "none"
    /\ fbUser' = "null"
    /\ auUser' = "null" /\ isAdmin' = FALSE /\ auLoading' = FALSE
    /\ latest' = "out"
    /\ UNCHANGED lookups

\* the sequence without its k-th element
RemoveAt(s, k) == SubSeq(s, 1, k - 1) \o SubSeq(s, k + 1, Len(s))

\* the getDoc of the k-th waiting call resolves: the call goes on after its await
AuthLookupResolved(k) ==
    /\ k \in 1..Len(lookups)
    /\ isAdmin' = (lookups[k] \in AdminDocs)
    /\ auUser' = lookups[k]
    /\ auLoading' = FALSE
    /\ lookups' = RemoveAt(lookups, k)
    /\ UNCHANGED <<fbUser, latest>>

\* the getDoc of the k-th waiting call rejects: the call ends at its await
AuthLookupRejected(k) ==
    /\ k \in 1..Len(lookups)
    /\ lookups' = RemoveAt(lookups, k)
    /\ UNCHANGED <<fbUser, auUser, isAdmin, auLoading, latest>>

(***************************************************************************)
(* SpecReview: ReinforcementModule.fetchReviewData.  The history holds     *)
(* records of three questions: q1 answered up to MaxEarly times and due on *)
(* day 0, q2 and q3 due on day 1, and q1 answered correctly once more on   *)
(* day 0, which is due a week later.  The query orders by nextReviewDate;  *)
(* documents with equal dates follow in the order of their generated ids,  *)
(* so which of them fall within the limit is open.                         *)
(***************************************************************************)
MaxEarly == 11
MaxTied == 2
MaxToday == 2

\* limit(10)
ReviewLimit == 10

\* the documents of the questions collection, in the order of their ids
QuestionIds == <<"q1", "q2", "q3">>

\* n records of question q due on day d
Run(q, d, n) == [k \in 1..n |-> [questionId |-> q, nextReviewDate |-> d]]

ReviewHistories ==
    { Run("q1", 0, a) \o Run("q2", 1, b) \o Run("q3", 1, c) \o Run("q1", CorrectOffset, e) :
          a \in 0..MaxEarly, b \in 0..MaxTied, c \in 0..1, e \in 0..1 }

\* a filter that takes every record, due or not
DuePlacesIgnoringDate(h, today) == 1..Len(h)

\* where('nextReviewDate', '<=', today): the places of the records that are due
DuePlaces(h, today) == { k \in 1..Len(h) : h[k].nextReviewDate <= today }

\* orderBy('nextReviewDate'), limit(10): the sets of places the query can return
Snapshots(h, today) ==
    LET due == DuePlaces(h, today)
        upTo(k) == { j \in due : h[j].nextReviewDate <= h[k].nextReviewDate }
        before(k) == { j \in due : h[j].nextReviewDate < h[k].nextReviewDate }
        must == { k \in due : Cardinality(upTo(k)) <= ReviewLimit }
        tied == { k \in due \ must : Cardinality(before(k)) < ReviewLimit }
        size == IF Cardinality(due) < ReviewLimit THEN Cardinality(due) ELSE ReviewLimit
    IN  { must \cup T : T \in { X \in SUBSET tied : Cardinality(X) = size - Cardinality(must) } }

\* [...new Set(historySnap.docs.map((d) => d.data().questionId))]
idsOf(h, S) == { h[k].questionId : k \in S }

\* where('__name__', 'in', ids): the question documents with one of the ids
questionsIn(ids) == SelectSeq(QuestionIds, LAMBDA q : q \in ids)

ReviewIdle ==
    /\ rvHistory = <<>> /\ rvToday = 0 /\ rvSnap = <<>>
    /\ reviewQuestions = <<>> /\ rvLoading = TRUE

\* the module is mounted (reviewQuestions = [], loading = true), its reads not yet made
InitReview ==
    /\ rvHistory \in ReviewHistories
    /\ rvToday \in 0..MaxToday
    /\ rvSnap = <<>> /\ reviewQuestions = <<>> /\ rvLoading = TRUE

\* both reads of fetchReviewData resolve
fetchReviewResolved ==
    /\ rvLoading
    /\ \E S \in Snapshots(rvHistory, rvToday) :
           /\ rvSnap' = <<S>>
           /\ reviewQuestions' = IF S = {} THEN <<>>
                                 ELSE questionsIn(idsOf(rvHistory, S))
    /\ rvLoading' = FALSE
    /\ UNCHANGED <<rvHistory, rvToday>>

\* a read of fetchReviewData rejects: the catch empties the list
fetchReviewRejected ==
    /\ rvLoading
    /\ reviewQuestions' = <<>>
    /\ rvLoading' = FALSE
    /\ UNCHANGED <<rvHistory, rvToday, rvSnap>>

(***************************************************************************)
(* Specifications                                                          *)
(***************************************************************************)
\* the idle values of the variables of the other specifications
CoreIdle == EvalIdle /\ DateIdle /\ QuizIdle /\ ParseIdle /\ AdminIdle

OthersIdle == AnalysisIdle /\ AuthIdle /\ ReviewIdle

coreVars == <<evalVars, dateVars, quizVars, parseVars, adminVars>>

\* a step of the evaluation leaves the variables of the other specifications alone
Eval(A) ==
    A /\ UNCHANGED <<dateVars, quizVars, parseVars, adminVars, analysisVars, authVars, reviewVars>>

NextEval ==
    \/ Eval(EvaluateMulti)
    \/ Eval(EvaluateMultiBySets)

EvalInit == InitEval /\ DateIdle /\ QuizIdle /\ ParseIdle /\ AdminIdle /\ OthersIdle

SpecEval == EvalInit /\ [][NextEval]_vars

NextDate ==
    /\ ComputeReview
    /\ UNCHANGED <<evalVars, quizVars, parseVars, adminVars, analysisVars, authVars, reviewVars>>

DateInit == InitDate /\ EvalIdle /\ QuizIdle /\ ParseIdle /\ AdminIdle /\ OthersIdle

SpecDate == DateInit /\ [][NextDate]_vars

\* a step of the quiz leaves the variables of the other specifications alone
Quiz(A) ==
    A /\ UNCHANGED <<evalVars, dateVars, parseVars, adminVars, analysisVars, authVars, reviewVars>>

Next ==
    \/ Quiz(Login)
    \/ Quiz(handleLogout)
    \/ \E p \in Pages : Quiz(setPage(p))
    \/ Quiz(FetchDone)
    \/ Quiz(FetchFail)
    \/ Quiz(Tick)
    \/ Quiz(AddDocResolve)
    \/ Quiz(AddDocReject)
    \/ \E l \in OptionLetters : Quiz(setUserAnswer(l))
    \/ Quiz(checkAnswer)
    \/ Quiz(resetQuestion)
    \/ \E l \in OptionLetters : Quiz(toggle(l))
    \/ Quiz(multiHandleSubmit)
    \/ Quiz(multiRedo)
    \/ \E i \in Items : Quiz(handleSubItemFocus(i))
    \/ Quiz(handleMouseOver)
    \/ \E i \in Items, l \in OptionLetters : Quiz(handleSelection(i, l))
    \/ \E i \in Items : Quiz(subHandleSubmit(i))

Init == InitQuiz /\ EvalIdle /\ DateIdle /\ ParseIdle /\ AdminIdle /\ OthersIdle

Spec == Init /\ [][Next]_vars

NextParse ==
    /\ Parse
    /\ UNCHANGED <<evalVars, dateVars, quizVars, adminVars, analysisVars, authVars, reviewVars>>

ParseInit == InitParse /\ EvalIdle /\ DateIdle /\ QuizIdle /\ AdminIdle /\ OthersIdle

SpecParse == ParseInit /\ [][NextParse]_vars

Admin(A) ==
    A /\ UNCHANGED <<evalVars, dateVars, quizVars, parseVars, analysisVars, authVars, reviewVars>>

NextAdmin ==
    \/ \E text \in AdminInputs : Admin(setPastedContent(text))
    \/ Admin(adminHandleSubmit)
    \/ Admin(AdminAddDocResolve)
    \/ Admin(AdminAddDocReject)

AdminInit == InitAdmin /\ EvalIdle /\ DateIdle /\ QuizIdle /\ ParseIdle /\ OthersIdle

SpecAdmin == AdminInit /\ [][NextAdmin]_vars

Analysis(A) == A /\ UNCHANGED <<coreVars, authVars, reviewVars>>

NextAnalysis ==
    \/ Analysis(fetchDataResolved)
    \/ Analysis(fetchDataRejected)

AnalysisInit == InitAnalysis /\ CoreIdle /\ AuthIdle /\ ReviewIdle

SpecAnalysis == AnalysisInit /\ [][NextAnalysis]_vars

Auth(A) == A /\ UNCHANGED <<coreVars, analysisVars, reviewVars>>

NextAuth ==
    \/ \E u \in Uids : Auth(AuthSignedIn(u))
    \/ Auth(AuthSignedOut)
    \/ \E k \in 1..MaxLookups : Auth(AuthLookupResolved(k))
    \/ \E k \in 1..MaxLookups : Auth(AuthLookupRejected(k))

AuthInit == AuthIdle /\ CoreIdle /\ AnalysisIdle /\ ReviewIdle

SpecAuth == AuthInit /\ [][NextAuth]_vars

Review(A) == A /\ UNCHANGED <<coreVars, analysisVars, authVars>>

NextReview ==
    \/ Review(fetchReviewResolved)
    \/ Review(fetchReviewRejected)

ReviewInit == InitReview /\ CoreIdle /\ AnalysisIdle /\ AuthIdle

SpecReview == ReviewInit /\ [][NextReview]_vars

(***************************************************************************)
(* C1: for all letter sequences chosen and correct (any order, duplicates  *)
(* allowed) the multi-select evaluation is true exactly when the two       *)
(* sequences hold the same set of letters.                                 *)
(***************************************************************************)
C1_MultiSelectIsSetEquality ==
    evResult # <<>> => (evResult[1] <=> (Range(evChosen) = Range(evCorrect)))

\* C1: a reordered selection with a repeated letter is judged correct
C1_Witness ==
    /\ evResult = <<TRUE>>
    /\ evChosen = <<"C", "A", "A">>
    /\ evCorrect = <<"A", "C">>

(***************************************************************************)
(* Observations on the question blocks                                     *)
(***************************************************************************)
\* the sub-item is rendered and awaits an answer
ItemUnanswered(i) == Mounted("reading") /\ ~rd.items[i].localIsSubmitted

ItemSubmitted(i) == Mounted("reading") /\ rd.items[i].localIsSubmitted

ScUnanswered == Mounted("single_choice") /\ ~sc.isSubmitted

ScSubmitted == Mounted("single_choice") /\ sc.isSubmitted

MsUnanswered == Mounted("multi_select") /\ ~ms.isSubmitted

MsSubmitted == Mounted("multi_select") /\ ms.isSubmitted

(***************************************************************************)
(* C2: single-choice evaluation is exact, case-sensitive equality: every   *)
(* write of a single-choice block or of a single_choice reading sub-item   *)
(* carries isCorrect = (chosen letter = canonical answer), and so does the *)
(* verdict a reading block keeps for that sub-item.                        *)
(***************************************************************************)
C2_SingleChoiceIsEquality ==
    [][ /\ (~sc.isSubmitted /\ sc.isSubmitted') =>
               LET x == sc.userAnswer[1]
                   w == pending'[Len(pending')]
               IN  /\ w.chosenStr = x
                   /\ w.isCorrect <=> (x = question.answer)
        /\ (rd.submissions["i1"] = Null /\ rd.submissions'["i1"] # Null) =>
               LET x == rd.items["i1"].chosen[1]
                   w == pending'[Len(pending')]
               IN  /\ w.chosenStr = x
                   /\ w.isCorrect <=> (x = question.answer)
                   /\ rd.submissions'["i1"][1] <=> (x = question.answer)
      ]_vars

\* C2: a single-choice block answered "A" against the canonical answer "a" is judged wrong
C2_Witness ==
    /\ last = "checkAnswer"
    /\ question.answer = "a"
    /\ sc = [isSubmitted |-> TRUE, userAnswer |-> <<"A">>]
    /\ pending # <<>>
    /\ ~pending[Len(pending)].isCorrect

(***************************************************************************)
(* C4 as claimed: for every question type, a submit with no choice         *)
(* selected changes nothing: the block stays unanswered, no verdict is     *)
(* set and no history write is issued.                                     *)
(***************************************************************************)
C4_EmptySubmitRejected ==
    [][ /\ (last' = "checkAnswer" /\ sc.userAnswer = Null) =>
               (ScUnanswered' /\ UNCHANGED <<sc, pending, history>>)
        /\ (last' = "multiHandleSubmit" /\ ms.chosen = <<>>) =>
               (MsUnanswered' /\ ms.isCorrect' = Null /\ UNCHANGED <<pending, history>>)
        /\ \A i \in Items :
               (last' = "subHandleSubmit" /\ rd.focus = i /\ rd.items[i].chosen = <<>>) =>
                   (ItemUnanswered(i)' /\ UNCHANGED <<rd, pending, history>>)
      ]_vars

(***************************************************************************)
(* C5 as claimed: every accepted submission, multi-select included, adds   *)
(* one history record once the store accepts the write, so with no write   *)
(* pending or rejected the history holds one record per accepted           *)
(* submission.                                                             *)
(***************************************************************************)
C5_OneRecordPerSubmission ==
    (pending = <<>> /\ count.failed = 0) => Len(history) = Accepted

(***************************************************************************)
(* C5 as amended: every accepted submission of a single-choice block or a  *)
(* reading sub-item issues exactly one history write, a multi-select       *)
(* submission issues none, and the records, the pending writes and the     *)
(* rejected writes together number the accepted single-choice and reading  *)
(* submissions.                                                            *)
(***************************************************************************)
C5_OneWritePerWritingSubmission ==
    /\ [](Len(history) + Len(pending) + count.failed = count.sc + count.rd)
    /\ [][ /\ (~sc.isSubmitted /\ sc.isSubmitted') => Len(pending') = Len(pending) + 1
           /\ \A i \in Items :
                  (rd.submissions[i] = Null /\ rd.submissions'[i] # Null) =>
                      Len(pending') = Len(pending) + 1
           /\ (~ms.isSubmitted /\ ms.isSubmitted') =>
                  (pending' = pending /\ history' = history)
           /\ Len(pending') > Len(pending) =>
                  \/ (~sc.isSubmitted /\ sc.isSubmitted')
                  \/ \E i \in Items : rd.submissions[i] = Null /\ rd.submissions'[i] # Null
         ]_vars

\* C5: two accepted single-choice submissions, both committed to the history
C5_Witness ==
    /\ count.sc = 2
    /\ Len(history) = 2
    /\ pending = <<>>

(***************************************************************************)
(* C6: the history is append-only: every step keeps every record, with     *)
(* the same field values, at its place.                                    *)
(***************************************************************************)
C6_HistoryAppendOnly ==
    [][ /\ Len(history') >= Len(history)
        /\ \A k \in 1..Len(history) : history'[k] = history[k]
      ]_vars

\* C6: a redo with a record in the history
C6_Witness ==
    /\ last = "resetQuestion"
    /\ Len(history) >= 1

(***************************************************************************)
(* C7: redo is offered only in the submitted state and leads from it to    *)
(* the unanswered state with the selection cleared (userAnswer = null;     *)
(* chosen = [] and verdict = null), whatever selection and verdict were.   *)
(***************************************************************************)
C7_RedoClearsSelection ==
    [][ /\ last' = "resetQuestion" =>
               /\ ScSubmitted
               /\ ScUnanswered' /\ sc'.userAnswer = Null
        /\ last' = "multiRedo" =>
               /\ MsSubmitted
               /\ MsUnanswered' /\ ms'.chosen = <<>> /\ ms'.isCorrect = Null
        /\ (ScUnanswered /\ ScUnanswered' /\ sc.userAnswer # Null) =>
               sc'.userAnswer # Null
      ]_vars

\* C7: a redo has returned a single-choice block to the cleared unanswered state
C7_Witness ==
    /\ last = "resetQuestion"
    /\ sc = [isSubmitted |-> FALSE, userAnswer |-> Null]
    /\ count.sc >= 1

(***************************************************************************)
(* C8 as claimed: every submitted question instance, a reading sub-item    *)
(* included, has an enabled action that returns it to unanswered.          *)
(***************************************************************************)
C8_EverySubmittedCanReturn ==
    /\ ScSubmitted => ENABLED (Next /\ ScUnanswered')
    /\ MsSubmitted => ENABLED (Next /\ MsUnanswered')
    /\ \A i \in Items : ItemSubmitted(i) => ENABLED (Next /\ ItemUnanswered(i)')

(***************************************************************************)
(* C8 as amended: a submitted single-choice or multi-select block always   *)
(* has its redo enabled, which returns it to unanswered; a reading         *)
(* sub-item has no redo and stays submitted while its block is mounted.    *)
(***************************************************************************)
C8_RedoEnabledExceptReading ==
    /\ [](ScSubmitted => ENABLED (resetQuestion /\ ScUnanswered'))
    /\ [](MsSubmitted => ENABLED (multiRedo /\ MsUnanswered'))
    /\ [][ \A i \in Items :
               (ItemSubmitted(i) /\ Mounted("reading")') => ItemSubmitted(i)' ]_vars

\* C8: a submitted reading sub-item after its block was rendered again
C8_Witness ==
    /\ ItemSubmitted("i1")
    /\ rd.submissions["i1"] # Null
    /\ rd.focus = "i2"

\* the calendar successor of a date: the next day, month or year
NextCalendarDay(t) ==
    IF t.d < DaysInMonth(t.y, t.m) THEN [t EXCEPT !.d = t.d + 1]
    ELSE IF t.m < 12 THEN [t EXCEPT !.m = t.m + 1, !.d = 1]
    ELSE [y |-> t.y + 1, m |-> 1, d |-> 1]

RECURSIVE PlusCalendarDays(_, _)
PlusCalendarDays(t, n) ==
    IF n = 0 THEN t ELSE PlusCalendarDays(NextCalendarDay(t), n - 1)

(***************************************************************************)
(* C3: the next review date is the submission date plus exactly 7 calendar *)
(* days after a correct answer and plus exactly 1 calendar day after an    *)
(* incorrect one, rolling over month and year ends.                        *)
(***************************************************************************)
C3_ReviewDateOffset ==
    dtNext # <<>> =>
        /\ dtCorrect => dtNext[1] = PlusCalendarDays(dtNow[1], 7)
        /\ ~dtCorrect => dtNext[1] = PlusCalendarDays(dtNow[1], 1)
        /\ ValidDate(dtNext[1])

\* C3: an incorrect answer on December 31st is due on January 1st of the next year
C3_Witness ==
    /\ dtNow = <<[y |-> 2023, m |-> 12, d |-> 31]>>
    /\ ~dtCorrect
    /\ dtNext = <<[y |-> 2024, m |-> 1, d |-> 1]>>

\* the pasted text carries the answer-marker literal, markup set aside
HasAnswerLiteral == psShape.answer # "none"

\* the pasted text carries the explanation-marker literal
HasExplanationLiteral == psShape.explanation # "none"

(***************************************************************************)
(* C9: a pasted text whose flattened plain text lacks the answer-marker    *)
(* literal fails with the missing-answer-marker error, whatever else it    *)
(* contains; one that has the answer-marker literal but lacks the          *)
(* explanation-marker literal fails with the missing-explanation-marker    *)
(* error; and the parse fails in these two ways for no other text.         *)
(***************************************************************************)
C9_MarkerChecksComeFirst ==
    psResult # <<>> =>
        /\ (psResult[1].error = "MissingAnswerMarker") <=> ~HasAnswerLiteral
        /\ (psResult[1].error = "MissingExplanationMarker") <=>
               (HasAnswerLiteral /\ ~HasExplanationLiteral)

\* C9: a text with options and an error analysis but neither literal is
\* reported as lacking the answer marker
C9_Witness ==
    /\ psResult # <<>>
    /\ psShape.answer = "none"
    /\ psShape.explanation = "none"
    /\ psShape.options = "two"
    /\ psShape.errors = "mixed"
    /\ psResult[1].error = "MissingAnswerMarker"

\* the four checks of the parse, each on the text it is made on
FourChecksPass(html) ==
    /\ includes(textContent(html), AnswerLiteral)
    /\ includes(textContent(html), ExplanationLiteral)
    /\ answerMatch(textContent(html)) # <<>>
    /\ searchOptionMarker(contentBeforeAnswerHtmlOf(html)) # 0

(***************************************************************************)
(* C10: a submit of a text that fails any of the four checks inserts no    *)
(* question document, starts no write and leaves the pasted text exactly   *)
(* as it was; a document is inserted only for a submitted text that passed *)
(* all four checks, and only then does the program clear the pasted text.  *)
(***************************************************************************)
C10_FailedParseChangesNothing ==
    [][/\ (adLast' = "handleSubmit" /\ ~FourChecksPass(pastedContent)) =>
              /\ questions' = questions
              /\ adPending' = <<>>
              /\ pastedContent' = pastedContent
              /\ message' \in {FailureMessage[k] : k \in FailureKinds}
       /\ questions' # questions =>
              /\ adPending # <<>>
              /\ FourChecksPass(adPending[1].text)
              /\ questions' = Append(questions, adPending[1].doc)
              /\ pastedContent' = <<>>
       /\ (adLast' # "setPastedContent" /\ pastedContent' # pastedContent) =>
              /\ pastedContent' = <<>>
              /\ Len(questions') = Len(questions) + 1]_vars

\* C10: after one question was stored, a text without option markers was
\* submitted and is still in the textarea
C10_Witness ==
    /\ adLast = "handleSubmit"
    /\ message = FailureMessage["NoOptionMarkersFound"]
    /\ pastedContent # <<>>
    /\ Len(questions) = 1
    /\ adPending = <<>>

\* the parse has run and produced a question record
ParsedOk == psResult # <<>> /\ psResult[1].error = ""

\* the letters implied by n options: the first n letters counted from A
LettersOf(n) == {Letters[k] : k \in 1..(IF n < Len(Letters) THEN n ELSE Len(Letters))}

(***************************************************************************)
(* C11 as claimed: every record of a successful parse has a non-empty      *)
(* `options` and a `correctAnswer` among the first Len(options) letters    *)
(* counted from A; an answer letter beyond the options fails the parse.    *)
(***************************************************************************)
C11_AnswerIndexesOptions ==
    ParsedOk =>
        /\ psResult[1].options # <<>>
        /\ psResult[1].correctAnswer \in LettersOf(Len(psResult[1].options))

\* the letter that follows the first answer marker followed by a letter, in
\* uppercase, for each answer line of the input family; "" where there is none
ExpectedAnswer ==
    [none |-> "", upper |-> "B", lower |-> "B", beyond |-> "E", noGlyph |-> "",
     digit |-> "", tagged |-> "A", twice |-> "B"]

(***************************************************************************)
(* C12: with both marker literals present, `correctAnswer` is the letter   *)
(* at the first place of the flattened text where the check-mark glyph and *)
(* the answer literal are followed by a letter, in uppercase; with no such *)
(* place the parse fails with the unparsable-answer error, also when the   *)
(* text has no option markers.                                             *)
(***************************************************************************)
C12_AnswerLetterExtracted ==
    (psResult # <<>> /\ HasAnswerLiteral /\ HasExplanationLiteral) =>
        IF ExpectedAnswer[psShape.answer] = ""
        THEN psResult[1].error = "UnparsableAnswer"
        ELSE /\ psResult[1].error \in {"", "NoOptionMarkersFound"}
             /\ psResult[1].error = "" =>
                    psResult[1].correctAnswer = ExpectedAnswer[psShape.answer]

\* C12: a text whose answer marker is followed by a digit and that has no
\* option markers is reported as an unparsable answer
C12_Witness ==
    /\ psResult # <<>>
    /\ psShape.answer = "digit"
    /\ psShape.options = "none"
    /\ psShape.explanation = "full"
    /\ psResult[1].error = "UnparsableAnswer"

\* the parse has run and its first three checks have passed
ReachedOptionSearch ==
    /\ psResult # <<>>
    /\ psResult[1].error \in {"", "NoOptionMarkersFound"}

\* the raw text before the first explanation glyph and the first answer glyph
\* has an option marker: "(a)" is none, and the options precede both glyphs
\* in every order of the input family
MarkerBeforeAnswerGlyphs == psShape.options \in {"one", "two", "tagged"}

\* the raw text before the first error-analysis glyph as well has one
MarkerInPreAnswerContent ==
    /\ MarkerBeforeAnswerGlyphs
    /\ ~(psShape.order = "errorsFirst" /\ psShape.errors # "none")

\* the stem of the input family without its numbering and outer white space,
\* then what the "tagged" options put before their first marker
ExpectedTitle ==
    LET stem == IF psShape.stem = "none" THEN <<>> ELSE <<"T1">>
        sep == IF psShape.stem = "plain" THEN <<" ">>
               ELSE IF psShape.stem = "numbered" THEN <<NL>> ELSE <<>>
    IN  IF psShape.options = "tagged" THEN stem \o sep \o <<TAG>> ELSE stem

(***************************************************************************)
(* C13 as claimed: the parse fails with the no-option-markers error when   *)
(* the raw text before the first explanation glyph and the first answer    *)
(* glyph has no option marker; otherwise `title` is the text before the    *)
(* first marker, numbering prefix removed and trimmed, with no marker in   *)
(* it.                                                                     *)
(***************************************************************************)
C13_TitleBeforeFirstMarker ==
    ReachedOptionSearch =>
        IF ~MarkerBeforeAnswerGlyphs
        THEN psResult[1].error = "NoOptionMarkersFound"
        ELSE /\ psResult[1].error = ""
             /\ psResult[1].title = ExpectedTitle
             /\ searchOptionMarker(psResult[1].title) = 0

(***************************************************************************)
(* C13 as amended: the pre-answer content is the raw text before the first *)
(* error-analysis glyph, the first explanation glyph and the first answer  *)
(* glyph; the parse fails with the no-option-markers error when it has no  *)
(* option marker, and otherwise `title` is the text before the first       *)
(* marker, numbering prefix removed and trimmed, with no marker in it.     *)
(***************************************************************************)
C13_TitleBeforeFirstMarkerOfMainBlock ==
    ReachedOptionSearch =>
        IF ~MarkerInPreAnswerContent
        THEN psResult[1].error = "NoOptionMarkersFound"
        ELSE /\ psResult[1].error = ""
             /\ psResult[1].title = ExpectedTitle
             /\ searchOptionMarker(psResult[1].title) = 0

\* C13: a numbered stem followed by two options gives the bare stem as title
C13_Witness ==
    /\ ParsedOk
    /\ psShape.stem = "numbered"
    /\ psShape.options = "two"
    /\ psResult[1].title = <<"T1">>

\* what follows the last option in the pre-answer content: the explanation
\* line, when it comes before the answer line and has no glyph to cut at
AfterLastOption ==
    IF psShape.order = "explanationFirst" /\ psShape.explanation = "noGlyph"
    THEN <<NL, EXPLAIN, FCOLON, "T3">>
    ELSE <<>>

\* the trimmed texts that follow the option markers of the input family
ExpectedOptions ==
    CASE psShape.options = "one" -> << <<"T2">> \o AfterLastOption >>
      [] psShape.options = "two" -> << <<"T2">>, <<"T3">> \o AfterLastOption >>
      [] psShape.options = "tagged" -> << <<TAG, "T2">>, <<"T3">> \o AfterLastOption >>
      [] OTHER -> <<>>

(***************************************************************************)
(* C14: on a successful parse `options` has one entry per option marker of *)
(* the pre-answer content, in order of occurrence, each the trimmed text   *)
(* between its marker and the next marker or the end of the pre-answer     *)
(* content; the position of an entry, not the letter of its marker,        *)
(* decides which letter it is the option of.                               *)
(***************************************************************************)
C14_OneOptionPerMarker ==
    ParsedOk => psResult[1].options = ExpectedOptions

\* C14: markers (C) then (A), the first wrapped in markup, give two options in that order
C14_Witness ==
    /\ ParsedOk
    /\ psShape.options = "tagged"
    /\ psResult[1].options = << <<TAG, "T2">>, <<"T3">> >>

\* the error-analysis sections whose lines all follow the one glyph
OneGlyphErrors == {"none", "mixed", "ascii", "colonInValue"}

\* the entries the lines of each section add when a line with a key among
\* A-E adds one exactly if its value is present, colons in the value allowed
ClaimedErrorAnalysis ==
    [none |-> <<>>,
     mixed |-> [A |-> <<"T1">>],
     ascii |-> [B |-> <<"T2">>],
     colonInValue |-> [A |-> <<"T1", ":", "T2">>, B |-> <<"T3">>]]

\* the entries they add when a line adds one exactly if it has one colon
ExpectedErrorAnalysis ==
    [none |-> <<>>,
     mixed |-> [A |-> <<"T1">>],
     ascii |-> [A |-> <<>>, B |-> <<"T2">>],
     colonInValue |-> [B |-> <<"T3">>]]

(***************************************************************************)
(* C15 as claimed: a line of the error-analysis block adds an entry        *)
(* exactly if splitting it at a colon gives a key that is, trimmed and in  *)
(* uppercase, one of A-E and a value that is present; a value with a colon *)
(* in it is recorded, a letter key with an empty value is not.             *)
(***************************************************************************)
C15_LinesWithKeyAndValueRecorded ==
    (ParsedOk /\ psShape.errors \in OneGlyphErrors) =>
        psResult[1].errorAnalysis = ClaimedErrorAnalysis[psShape.errors]

(***************************************************************************)
(* C15 as amended: a line of the error-analysis block adds an entry        *)
(* exactly if it has exactly one colon (ASCII or full-width) and the text  *)
(* before it is, trimmed and in uppercase, one of A-E; the entry is the    *)
(* trimmed text after the colon, which may be empty; every other line, a   *)
(* line with a colon in its value included, is skipped without failing.    *)
(***************************************************************************)
C15_LinesWithOneColonRecorded ==
    (ParsedOk /\ psShape.errors \in OneGlyphErrors) =>
        psResult[1].errorAnalysis = ExpectedErrorAnalysis[psShape.errors]

\* C15: the lines "b: T2", "F：T1" and "A：" give entries for B and, empty, for A
C15_Witness ==
    /\ ParsedOk
    /\ psShape.errors = "ascii"
    /\ psResult[1].errorAnalysis = [A |-> <<>>, B |-> <<"T2">>]

(***************************************************************************)
(* C16 as claimed: the error-analysis block is everything after the first  *)
(* error-analysis glyph, so an annotated line that follows a second glyph  *)
(* is recorded in `errorAnalysis` as well.                                 *)
(***************************************************************************)
C16_BlockIsAllAfterFirstGlyph ==
    (ParsedOk /\ psShape.errors = "twice") =>
        psResult[1].errorAnalysis = [A |-> <<"T1">>, B |-> <<"T2">>]

(***************************************************************************)
(* C16 as amended: the raw text is split at every error-analysis glyph;    *)
(* the main block is what precedes the first glyph and the error-analysis  *)
(* block is what lies between the first and the second glyph (or the end); *)
(* annotated lines after a second glyph are not recorded.                  *)
(***************************************************************************)
C16_BlockEndsAtSecondGlyph ==
    ParsedOk =>
        /\ psShape.errors = "twice" => psResult[1].errorAnalysis = [A |-> <<"T1">>]
        /\ psShape.errors = "none" => psResult[1].errorAnalysis = <<>>
        /\ psShape.errors # "none" => psShape.order # "errorsFirst"

\* C16: of the lines "A：T1" and, after a second glyph, "B：T2" only the first is recorded
C16_Witness ==
    /\ ParsedOk
    /\ psShape.errors = "twice"
    /\ psResult[1].errorAnalysis = [A |-> <<"T1">>]

\* the text after the explanation label on the explanation lines of the input family
ExplanationBody ==
    [none |-> <<>>, full |-> <<"T3">>, noGlyph |-> <<"T3">>, empty |-> <<>>,
     withMarker |-> <<"(", "D", ")", "T1">>]

\* the text from the explanation label to the end of the main block: the
\* answer line follows the explanation when the explanation comes first
TextAfterExplanationLabel ==
    LET body == ExplanationBody[psShape.explanation]
        an == AnswerTexts[psShape.answer]
        rest == IF psShape.order = "explanationFirst" /\ an # <<>>
                THEN SubSeq(an, 1, Len(an) - 1)
                ELSE <<>>
    IN  IF body = <<>> THEN rest
        ELSE IF rest = <<>> THEN body
        ELSE body \o <<NL>> \o rest

(***************************************************************************)
(* C17 as claimed: on a successful parse `explanation` is the text of the  *)
(* main block after the explanation marker, label removed and trimmed, and *)
(* it is that text whenever the input passes the explanation-marker check  *)
(* and has text after the label.                                           *)
(***************************************************************************)
C17_ExplanationIsTextAfterLabel ==
    ParsedOk => psResult[1].explanation = TextAfterExplanationLabel

\* the number of option markers of the option lines of the input family
MarkerCount == [none |-> 0, one |-> 1, two |-> 2, lowercase |-> 0, tagged |-> 2]

\* a block after the authoring template: a stem, option markers, an answer
\* marker naming one of their letters, an explanation marker with text, in
\* this order, and no error-analysis section
WellFormed ==
    /\ psShape.order = "template"
    /\ psShape.stem \in {"plain", "numbered"}
    /\ psShape.options \in {"one", "two", "tagged"}
    /\ psShape.answer \in {"upper", "lower", "tagged"}
    /\ ExpectedAnswer[psShape.answer] \in LettersOf(MarkerCount[psShape.options])
    /\ psShape.explanation \in {"full", "withMarker"}
    /\ psShape.errors = "none"

(***************************************************************************)
(* C18: a well-formed block with n >= 1 option markers, an answer marker   *)
(* naming one of the n letters, an explanation with text and no            *)
(* error-analysis section parses into a record with n options, the named   *)
(* letter, the explanation text and an empty errorAnalysis; and no text    *)
(* fails to parse for lacking its error-analysis section.                  *)
(***************************************************************************)
C18_WellFormedBlockParses ==
    /\ (psResult # <<>> /\ WellFormed) =>
           /\ psResult[1].error = ""
           /\ Len(psResult[1].options) = MarkerCount[psShape.options]
           /\ psResult[1].correctAnswer = ExpectedAnswer[psShape.answer]
           /\ psResult[1].explanation = ExplanationBody[psShape.explanation]
           /\ psResult[1].errorAnalysis = <<>>
           /\ DOMAIN psResult[1].errorAnalysis = {}
    /\ (ParsedOk /\ psShape.errors # "none") =>
           ParseQuestion(TextOf([psShape EXCEPT !.errors = "none"])).error = ""

\* C18: a numbered stem, options (A) and ( B ), answer b and an explanation parse
C18_Witness ==
    /\ WellFormed
    /\ psShape.stem = "numbered" /\ psShape.options = "two" /\ psShape.answer = "lower"
    /\ ParsedOk
    /\ Len(psResult[1].options) = 2
    /\ psResult[1].correctAnswer = "B"
    /\ psResult[1].explanation = <<"T3">>

\* two outcomes of the parse are the same error, or records with the same fields
SameOutcome(a, b) ==
    /\ a.error = b.error
    /\ a.error = "" =>
           /\ a.title = b.title
           /\ a.options = b.options
           /\ a.correctAnswer = b.correctAnswer
           /\ a.explanation = b.explanation
           /\ a.errorAnalysis = b.errorAnalysis

FirstFailure(html) ==
    IF ~includes(textContent(html), AnswerLiteral) THEN "MissingAnswerMarker"
    ELSE IF ~includes(textContent(html), ExplanationLiteral) THEN "MissingExplanationMarker"
    ELSE IF answerMatch(textContent(html)) = <<>> THEN "UnparsableAnswer"
    ELSE IF searchOptionMarker(contentBeforeAnswerHtmlOf(html)) = 0 THEN "NoOptionMarkersFound"
    ELSE ""

\* the submit button is enabled: disabled={isSubmitting}
SubmitButtonEnabled == ~isSubmitting

(***************************************************************************)
(* C20: every parse failure ends as a result, not a crash: after a submit  *)
(* that meets any of the four failure conditions the form is idle          *)
(* (isSubmitting = false) and shows the message of that condition, the     *)
(* four messages being pairwise different, and the form accepts a further  *)
(* submit.                                                                 *)
(***************************************************************************)
C20_FailureIsAResult ==
    /\ [](\A j, k \in FailureKinds : FailureMessage[j] = FailureMessage[k] => j = k)
    /\ [][(adLast' = "handleSubmit" /\ FirstFailure(pastedContent) # "") =>
              /\ isSubmitting' = FALSE
              /\ message' = FailureMessage[FirstFailure(pastedContent)]
              /\ adPending' = <<>>]_vars
    /\ []((adLast = "handleSubmit" /\ message \in {FailureMessage[k] : k \in FailureKinds}) =>
             SubmitButtonEnabled)

\* C20: three submits failed in three ways; the last of them shows the
\* unparsable-answer message and the form is idle
C20_Witness ==
    /\ adLast = "handleSubmit"
    /\ Len(parseLog) = 3
    /\ parseLog[1].outcome.error = "MissingAnswerMarker"
    /\ parseLog[2].outcome.error = "MissingExplanationMarker"
    /\ parseLog[3].outcome.error = "UnparsableAnswer"
    /\ message = FailureMessage["UnparsableAnswer"]
    /\ ~isSubmitting

(***************************************************************************)
(* C21: submissions are not deduplicated: every invocation of checkAnswer  *)
(* with a selection issues its own history write, also while an equal      *)
(* write of an earlier invocation is still pending, and the store commits  *)
(* every write it accepts as a record of its own, so two invocations give  *)
(* two records.                                                            *)
(***************************************************************************)
C21_EachInvocationWritesItsOwnRecord ==
    [][ /\ (last' = "checkAnswer" /\ sc.userAnswer # Null) =>
               /\ Len(pending') = Len(pending) + 1
               /\ SubSeq(pending', 1, Len(pending)) = pending
               /\ pending'[Len(pending')].chosenStr = sc.userAnswer[1]
        /\ (pending # <<>> /\ Len(pending') < Len(pending) /\ count' = count) =>
               /\ Len(history') = Len(history) + 1
               /\ history'[Len(history')].chosenStr = Head(pending).chosenStr
      ]_vars

\* C21: the second invocation ran while the equal write of the first was pending
C21_Witness ==
    /\ last = "checkAnswer"
    /\ Len(pending) = 2
    /\ pending[1] = pending[2]
    /\ sc.isSubmitted

\* the evaluation of a record's `chosen` against the question's canonical answer
ChosenMatchesAnswer(r) ==
    IF r.chosenKind = "string" THEN r.chosenStr = question.answer
    ELSE Range(r.chosenArr) = Range(question.answers)

C29_SetCheckAgreesWithNormalizedCompare ==
    (evResult # <<>> /\ evSetOk # <<>>) => evSetOk[1] = evResult[1]

\* C29: a selection with one letter more than the answer, rejected by both
C29_Witness ==
    /\ evChosen = <<"B", "A", "C">>
    /\ evCorrect = <<"A", "B">>
    /\ evResult = <<FALSE>>
    /\ evSetOk = <<FALSE>>

\* the letters of an array, each once
NoLetterTwice(arr) == Cardinality(Range(arr)) = Len(arr)

\* the set of letters after a toggle of l: l added if absent, removed if present
Flipped(S, l) == IF l \in S THEN S \ {l} ELSE S \cup {l}

(***************************************************************************)
(* C23: after any sequence of toggles the selection of a multi-select      *)
(* block or multi-select sub-item holds no letter twice; a toggle adds an  *)
(* absent letter and removes a present one, so that two toggles of one    *)
(* letter in a row restore the set of letters (flipping a letter twice     *)
(* gives the set back); a single-choice sub-item's selection never holds   *)
(* more than one letter.                                                   *)
(***************************************************************************)
C23_TogglesKeepASet ==
    /\ [](/\ NoLetterTwice(ms.chosen)
          /\ NoLetterTwice(rd.items["i2"].chosen)
          /\ Len(rd.items["i1"].chosen) <= 1)
    /\ [][ \A l \in OptionLetters :
               /\ toggle(l) => Range(ms.chosen') = Flipped(Range(ms.chosen), l)
               /\ handleSelection("i2", l) =>
                      Range(rd.items["i2"].chosen') = Flipped(Range(rd.items["i2"].chosen), l)
               /\ handleSelection("i1", l) => rd.items["i1"].chosen' = <<l>>
         ]_vars

\* C23: a selection of two letters built by toggles, in the order of the toggles
C23_Witness ==
    /\ Mounted("multi_select")
    /\ ms.chosen = <<"B", "A">>
    /\ ~ms.isSubmitted

\* the verdict a submitted block shows: `isCorrect ? ... : ...`, null being falsy
ShownCorrect(isCorrect) == isCorrect = <<TRUE>>

\* the evaluation of the selection a sub-item holds against its canonical answer
ItemSelectionCorrect(i) ==
    LET chosen == rd.items[i].chosen
    IN  IF subtype(i) = "multi_select" THEN Range(chosen) = Range(question.answers)
        ELSE chosen # <<>> /\ chosen[1] = question.answer

(***************************************************************************)
(* C25 as claimed: a question in the submitted state shows the verdict of  *)
(* the selection it currently holds: the selection does not change between *)
(* submit and redo, and the verdict computed at submit is the one shown    *)
(* until redo (single-choice block, multi-select block, reading sub-item). *)
(***************************************************************************)
C25_ShownVerdictIsOfHeldSelection ==
    /\ [](MsSubmitted =>
              (ShownCorrect(ms.isCorrect) <=> (Range(ms.chosen) = Range(question.answers))))
    /\ [](\A i \in Items :
              (ItemSubmitted(i) /\ rd.submissions[i] # Null) =>
                  /\ ShownCorrect(rd.items[i].isCorrect) <=> ItemSelectionCorrect(i)
                  /\ ShownCorrect(rd.items[i].isCorrect) <=> rd.submissions[i][1])
    /\ [][ /\ (ScSubmitted /\ ScSubmitted') => sc.userAnswer' = sc.userAnswer
           /\ (MsSubmitted /\ MsSubmitted') => ms.chosen' = ms.chosen
         ]_vars

LoadingShown == module \in {"loading", "hung"}

(***************************************************************************)
(* C28 as claimed: each of the three data-loading modules leaves its       *)
(* loading state once its store read settles, whether the read succeeds    *)
(* or fails: after the step in which the read resolves or rejects,         *)
(* `loading` is false.                                                     *)
(***************************************************************************)
C28_LoadingEndsWhenReadSettles ==
    [][ (module = "loading" /\ module' # "loading" /\ user' = user /\ page' = page) =>
            ~LoadingShown'
      ]_vars

(***************************************************************************)
(* C24: the statistics computed from a history satisfy: total is the       *)
(* number of records read, correct is the number of those whose isCorrect  *)
(* is true, hence 0 <= correct <= total; when total is 0 the accuracy is   *)
(* the text '0', no quotient being formed.                                 *)
(***************************************************************************)
C24_StatsCountTheRecords ==
    stats # <<>> =>
        LET st == stats[1]
        IN  /\ st.total = Len(anRecords)
            /\ st.correct = Cardinality({ k \in 1..Len(anRecords) : anRecords[k].isCorrect })
            /\ 0 <= st.correct /\ st.correct <= st.total
            /\ st.total = 0 => st.accuracy = [whole |-> 0, frac |-> <<>>]
            /\ st.total > 0 => st.accuracy.frac # <<>>

\* C24: three records, two of them correct: an accuracy of 66.7
C24_Witness ==
    /\ anRead = "resolved" /\ ~anLoading
    /\ Len(anRecords) = 3
    /\ stats = <<[total |-> 3, correct |-> 2, accuracy |-> [whole |-> 66, frac |-> <<7>>]]>>

(***************************************************************************)
(* C27 as claimed: the session follows the most recent auth event under    *)
(* every interleaving of auth events and admin lookups: while the latest   *)
(* event delivered is a sign-out, user is null and isAdmin is false, also  *)
(* when the lookup of an earlier sign-in completes after the sign-out.     *)
(***************************************************************************)
C27_SignedOutMeansNoUser ==
    latest = "out" => (auUser = "null" /\ ~isAdmin)

(***************************************************************************)
(* C30: the review list is derived only from due history records: from at  *)
(* most the 10 records with the earliest nextReviewDate among those with   *)
(* nextReviewDate <= now; it holds each question at most once and exactly  *)
(* the questions one of these records refers to, also a question whose     *)
(* later record is due in the future.                                      *)
(***************************************************************************)
C30_ReviewListFromEarliestDueRecords ==
    rvSnap # <<>> =>
        LET S == rvSnap[1]
            due == { k \in 1..Len(rvHistory) : rvHistory[k].nextReviewDate <= rvToday }
        IN  /\ S \subseteq due
            /\ Cardinality(S) <= 10
            /\ Cardinality(S) < 10 => S = due
            /\ \A i \in S, j \in due \ S :
                   rvHistory[i].nextReviewDate <= rvHistory[j].nextReviewDate
            /\ Cardinality(Range(reviewQuestions)) = Len(reviewQuestions)
            /\ Range(reviewQuestions) = { rvHistory[k].questionId : k \in S }

\* C30: eleven due records of q1 fill the limit: q1 is listed although its latest
\* record is due in the future, q2 is due and not listed
C30_Witness ==
    /\ rvSnap # <<>> /\ ~rvLoading
    /\ Cardinality(rvSnap[1]) = 10
    /\ reviewQuestions = <<"q1">>
    /\ rvHistory[Len(rvHistory)].questionId = "q1"
    /\ rvHistory[Len(rvHistory)].nextReviewDate > rvToday
    /\ \E k \in 1..Len(rvHistory) :
           rvHistory[k].questionId = "q2" /\ rvHistory[k].nextReviewDate <= rvToday
====
